---- MODULE Spec2Model ----
(***************************************************************************)
(* Request-logging middleware of gin-contrib/logger.                       *)
(*                                                                         *)
(* SetLogger(opts...) builds a configuration, a set of paths to skip and   *)
(* a base logger, and returns a handler closure.  The closure is run once  *)
(* per request by the host framework, possibly by several goroutines at    *)
(* once: it derives a request logger, computes the path, decides whether   *)
(* the request is tracked, attaches a logger to the request context, runs  *)
(* the downstream handlers (c.Next) and, when tracked, builds one event    *)
(* and writes it.                                                          *)
(*                                                                         *)
(* The model follows the newest revision of the middleware                 *)
(* (src/unnamed/part_011) and of its options (src/unnamed/part_001,        *)
(* second file).  zerolog values are modelled by what the middleware       *)
(* relies on: a logger is a writer plus an ordered context of fields, an   *)
(* event is a level plus an ordered list of fields, and an event of level  *)
(* Disabled is the nil event, on which every call is a no-op.              *)
(***************************************************************************)
EXTENDS Integers, Sequences, FiniteSets, TLC

(***************************************************************************)
(* Bounds of the model.                                                    *)
(***************************************************************************)
\* requests handled by one middleware instance
MaxReqs == 3
\* options given to one SetLogger call
MaxOpts == 3

\* ticks of the wall clock
MaxTime == 2
\* writes a handler makes to the response
MaxWrites == 2
\* level strings a program parses
MaxParses == 2

Reqs == 1..MaxReqs

(***************************************************************************)
(* zerolog levels (the ones the middleware is configured with).            *)
(***************************************************************************)
DebugLevel == "debug"
InfoLevel == "info"
WarnLevel == "warn"
ErrorLevel == "error"
FatalLevel == "fatal"
PanicLevel == "panic"
TraceLevel == "trace"
Disabled == "disabled"

\* the order of the levels (zerolog.Level is an int8)
LevelRank ==
    (TraceLevel :> -1) @@ (DebugLevel :> 0) @@ (InfoLevel :> 1) @@ (WarnLevel :> 2)
      @@ (ErrorLevel :> 3) @@ (FatalLevel :> 4) @@ (PanicLevel :> 5)
      @@ (Disabled :> 7)

\* net/http status constants used by getLogEvent
StatusBadRequest == 400
StatusInternalServerError == 500

\* key under which the request logger is stored in the gin context
loggerKey == "_gin-contrib/logger_"

(***************************************************************************)
(* State.                                                                  *)
(***************************************************************************)
VARIABLES
    opts,   \* the options SetLogger was called with
    cfg,    \* the config the closure captures
    skip,   \* the set of paths to skip the closure captures
    l,      \* the base logger the closure captures
    pc,     \* where each request is: new, next (in c.Next), after, done
    ctx,    \* the gin context of each request
    loc,    \* the closure's locals of each request: rl, path, track
    sink,   \* what was written to each writer, in order
    gLevel, \* zerolog's global level, set by the program with SetGlobalLevel
    now,    \* the wall clock, in ticks
    parsed  \* the level strings the program gave to ParseLevel, with the results

vars == <<opts, cfg, skip, l, pc, ctx, loc, sink, gLevel, now, parsed>>

(***************************************************************************)
(* time.Time, as far as the middleware uses it: an instant and the         *)
(* location it is shown in.                                                *)
(***************************************************************************)
\* time.Now(): the current instant, in the local zone
Now == [instant |-> now, zone |-> "Local"]
\* t.UTC(): the same instant, location UTC
UTC(t) == [t EXCEPT !.zone = "UTC"]
\* t.Sub(u): the duration between two instants, whatever their locations
Sub(t, u) == t.instant - u.instant
\* the time of an event written by a logger without Timestamp()
NoTime == [instant |-> -1, zone |-> ""]

(***************************************************************************)
(* Strings.                                                                *)
(***************************************************************************)
HasPrefix(s, p) == Len(p) <= Len(s) /\ SubSeq(s, 1, Len(p)) = p

Contains(s, p) ==
    \E i \in 1..(Len(s) - Len(p) + 1) : SubSeq(s, i, i + Len(p) - 1) = p

(***************************************************************************)
(* regexp.Regexp.MatchString for the three shapes of pattern used here:    *)
(* "^lit" (a prefix, as ^/regexp\d* is), "lit" (found anywhere) and        *)
(* "^lit$" (the whole string).                                             *)
(***************************************************************************)
MatchString(reg, s) ==
    CASE reg.kind = "prefix" -> HasPrefix(s, reg.lit)
      [] reg.kind = "contains" -> Contains(s, reg.lit)
      [] reg.kind = "exact" -> s = reg.lit

\* ^/regexp\d*
rxURL == [kind |-> "prefix", lit |-> "/regexp"]
\* a=1
rxQuery == [kind |-> "contains", lit |-> "a=1"]
\* ^/example$
rxExact == [kind |-> "exact", lit |-> "/example"]

(***************************************************************************)
(* The functions a caller may configure.  Each is one of a few             *)
(* representative functions; NoFn is the nil function.                     *)
(***************************************************************************)
NoFn == [kind |-> "nil", arg |-> ""]

\* Skipper: func(c) bool { return c.Request.URL.Path == arg }
SkipURLPath(p) == [kind |-> "urlPathIs", arg |-> p]
\* Skipper: func(c) bool { return c.Request.Method == arg }
SkipMethod(m) == [kind |-> "methodIs", arg |-> m]

\* Skipper: func(c) bool { return c.Writer.Status() < http.StatusBadRequest }
SkipSuccess == [kind |-> "statusBelow400", arg |-> ""]

Skipper(s, c) ==
    CASE s.kind = "urlPathIs" -> c.urlPath = s.arg
      [] s.kind = "methodIs" -> c.method = s.arg
      [] s.kind = "statusBelow400" -> c.status < 400

\* Fn: l.With().Str("foo", "bar").Str("path", c.Request.URL.Path).Logger()
FnFields == [kind |-> "fields", arg |-> ""]
\* Fn: l.Output(w).With().Logger()
FnOutput(w) == [kind |-> "output", arg |-> w]
\* Fn: l.Level(lvl)
FnLevel(lvl) == [kind |-> "level", arg |-> lvl]

Fn(fn, c, lg) ==
    CASE fn.kind = "fields" ->
           [lg EXCEPT !.context = @ \o << <<"foo", "bar">>, <<"path", c.urlPath>> >>]
      [] fn.kind = "output" -> [lg EXCEPT !.w = fn.arg]
      [] fn.kind = "level" -> [lg EXCEPT !.level = fn.arg]

\* EventFn: e.Str("trace_id", "t").Str("path", "custom")
EvFields == [kind |-> "fields", arg |-> ""]

(***************************************************************************)
(* zerolog events.  NilEvent is the nil *Event that WithLevel returns for   *)
(* the level Disabled and for a level below the logger's minimum level;    *)
(* calls on it do nothing.                                                 *)
(***************************************************************************)
NilEvent ==
    [nil |-> TRUE, w |-> "", level |-> Disabled, fields |-> <<>>, timestamp |-> FALSE,
     done |-> "nil"]

\* a variant that starts the event as Logger.Fatal and Logger.Panic do, with
\* the callback that exits the process or panics once the event is written
WithLevelByMethod(lg, level) ==
    IF level = Disabled
         \/ LevelRank[level] < LevelRank[lg.level]
         \/ LevelRank[level] < LevelRank[gLevel]
    THEN NilEvent
    ELSE [nil |-> FALSE, w |-> lg.w, level |-> level, fields |-> lg.context,
          timestamp |-> lg.timestamp,
          done |-> IF level = FatalLevel THEN "exit"
                   ELSE IF level = PanicLevel THEN "panic" ELSE "nil"]

\* Logger.WithLevel: the event has no done callback, whatever the level
WithLevel(lg, level) ==
    IF level = Disabled
         \/ LevelRank[level] < LevelRank[lg.level]
         \/ LevelRank[level] < LevelRank[gLevel]
    THEN NilEvent
    ELSE [nil |-> FALSE, w |-> lg.w, level |-> level, fields |-> lg.context,
          timestamp |-> lg.timestamp, done |-> "nil"]

Field(evt, k, v) ==
    IF evt.nil THEN evt ELSE [evt EXCEPT !.fields = Append(@, <<k, v>>)]

EventFn(fn, c, evt) ==
    CASE fn.kind = "fields" -> Field(Field(evt, "trace_id", "t"), "path", "custom")

\* Logger.With().Str(k, v)...Logger(): a new logger, the receiver is not changed
WithStr(lg, k, v) == [lg EXCEPT !.context = Append(@, <<k, v>>)]

(***************************************************************************)
(* The configuration and the options.                                      *)
(***************************************************************************)
\* a Go map with no entry (a nil map reads the same way)
EmptyMap == [k \in {} |-> InfoLevel]

\* a variant of the defaults with the levels of the two error tiers exchanged
DefaultConfigSwapped ==
    [logger |-> NoFn,
     context |-> NoFn,
     utc |-> FALSE,
     skipPath |-> <<>>,
     skipPathRegexps |-> <<>>,
     skip |-> NoFn,
     output |-> "stderr",
     defaultLevel |-> InfoLevel,
     clientErrorLevel |-> ErrorLevel,
     serverErrorLevel |-> WarnLevel,
     pathLevels |-> EmptyMap,
     message |-> "Request",
     specificLevelByStatusCode |-> EmptyMap]

\* the config literal of SetLogger
DefaultConfig ==
    [logger |-> NoFn,
     context |-> NoFn,
     utc |-> FALSE,
     skipPath |-> <<>>,
     skipPathRegexps |-> <<>>,
     skip |-> NoFn,
     output |-> "stderr",
     defaultLevel |-> InfoLevel,
     clientErrorLevel |-> WarnLevel,
     serverErrorLevel |-> ErrorLevel,
     pathLevels |-> EmptyMap,
     message |-> "Request",
     specificLevelByStatusCode |-> EmptyMap]

\* An Option value is a closure: the name of the constructor that made it and
\* the argument it closes over, held in the field of the argument's type.
NoOption ==
    [opt |-> "", paths |-> <<>>, regs |-> <<>>, fn |-> NoFn, level |-> "",
     text |-> "", flag |-> FALSE, num |-> 0, byPath |-> EmptyMap, byStatus |-> EmptyMap]

WithLogger(fn) == [NoOption EXCEPT !.opt = "WithLogger", !.fn = fn]

WithSkipPathRegexps(regs) ==
    [NoOption EXCEPT !.opt = "WithSkipPathRegexps", !.regs = regs]

WithUTC(s) == [NoOption EXCEPT !.opt = "WithUTC", !.flag = s]

WithSkipPath(s) == [NoOption EXCEPT !.opt = "WithSkipPath", !.paths = s]

WithPathLevel(m) == [NoOption EXCEPT !.opt = "WithPathLevel", !.byPath = m]

WithWriter(s) == [NoOption EXCEPT !.opt = "WithWriter", !.text = s]

WithDefaultLevel(lvl) ==
    [NoOption EXCEPT !.opt = "WithDefaultLevel", !.level = lvl]

WithClientErrorLevel(lvl) ==
    [NoOption EXCEPT !.opt = "WithClientErrorLevel", !.level = lvl]

WithServerErrorLevel(lvl) ==
    [NoOption EXCEPT !.opt = "WithServerErrorLevel", !.level = lvl]

WithSkipper(s) == [NoOption EXCEPT !.opt = "WithSkipper", !.fn = s]

WithContext(fn) == [NoOption EXCEPT !.opt = "WithContext", !.fn = fn]

WithMessage(message) == [NoOption EXCEPT !.opt = "WithMessage", !.text = message]

WithSpecificLogLevelByStatusCode(statusCodes) ==
    [NoOption EXCEPT !.opt = "WithSpecificLogLevelByStatusCode",
                     !.byStatus = statusCodes]

\* a variant in which the patterns of an option replace those given before
appendSkipPathRegexpsReplacing(regs, cf) ==
    IF Len(regs) = 0
    THEN cf
    ELSE [cf EXCEPT !.skipPathRegexps = regs]

\* the body of the closure WithSkipPathRegexps returns
appendSkipPathRegexps(regs, cf) ==
    IF Len(regs) = 0
    THEN cf
    ELSE [cf EXCEPT !.skipPathRegexps = @ \o regs]

\* optionFunc.apply: run the option's closure on the config
apply(o, cf) ==
    CASE o.opt = "WithLogger" -> [cf EXCEPT !.logger = o.fn]
      [] o.opt = "WithSkipPathRegexps" -> appendSkipPathRegexps(o.regs, cf)
      [] o.opt = "WithUTC" -> [cf EXCEPT !.utc = o.flag]
      [] o.opt = "WithSkipPath" -> [cf EXCEPT !.skipPath = o.paths]
      [] o.opt = "WithPathLevel" -> [cf EXCEPT !.pathLevels = o.byPath]
      [] o.opt = "WithWriter" -> [cf EXCEPT !.output = o.text]
      [] o.opt = "WithDefaultLevel" -> [cf EXCEPT !.defaultLevel = o.level]
      [] o.opt = "WithClientErrorLevel" -> [cf EXCEPT !.clientErrorLevel = o.level]
      [] o.opt = "WithServerErrorLevel" -> [cf EXCEPT !.serverErrorLevel = o.level]
      [] o.opt = "WithSkipper" -> [cf EXCEPT !.skip = o.fn]
      [] o.opt = "WithContext" -> [cf EXCEPT !.context = o.fn]
      [] o.opt = "WithMessage" -> [cf EXCEPT !.message = o.text]
      [] o.opt = "WithSpecificLogLevelByStatusCode" ->
           [cf EXCEPT !.specificLevelByStatusCode = o.byStatus]

\* for _, o := range opts { o.apply(cfg) }
RECURSIVE ApplyOptions(_, _)
ApplyOptions(os, cf) ==
    IF os = <<>> THEN cf ELSE ApplyOptions(Tail(os), apply(Head(os), cf))

(***************************************************************************)
(* SetLogger, up to the point where it returns the handler: the config,    *)
(* the set of paths to skip and the base logger the closure captures.      *)
(***************************************************************************)
SetLogger(os) ==
    LET cf == ApplyOptions(os, DefaultConfig)
    IN  [cfg |-> cf,
         skip |-> {cf.skipPath[i] : i \in 1..Len(cf.skipPath)},
         l |-> [w |-> cf.output, level |-> TraceLevel, context |-> <<>>,
                timestamp |-> TRUE]]

(***************************************************************************)
(* The decision functions.                                                 *)
(***************************************************************************)
\* a variant that tests the first pattern only
matchAnyFirstOnly(regs, path) ==
    regs # <<>> /\ MatchString(Head(regs), path)

\* for _, reg := range regs { if reg.MatchString(path) { return true } }; return false
RECURSIVE matchAny(_, _)
matchAny(regs, path) ==
    IF regs = <<>>
    THEN FALSE
    ELSE IF MatchString(Head(regs), path)
         THEN TRUE
         ELSE matchAny(Tail(regs), path)

\* the tests the loop over the patterns makes, from pattern number i on: it
\* returns at the first match
RECURSIVE patternTests(_, _, _)
patternTests(regs, path, i) ==
    IF regs = <<>>
    THEN <<>>
    ELSE << [test |-> "pattern", at |-> i, said |-> MatchString(Head(regs), path)] >>
           \o (IF MatchString(Head(regs), path)
               THEN <<>>
               ELSE patternTests(Tail(regs), path, i + 1))

\* a variant that makes every test, whatever the earlier ones said
skipTestsEager(path, skp, cf, c) ==
    << [test |-> "path", at |-> 0, said |-> path \in skp] >>
      \o (IF cf.skip # NoFn
          THEN << [test |-> "skipper", at |-> 0, said |-> Skipper(cf.skip, c)] >>
          ELSE <<>>)
      \o [i \in 1..Len(cf.skipPathRegexps) |->
            [test |-> "pattern", at |-> i,
             said |-> MatchString(cf.skipPathRegexps[i], path)]]

\* the tests shouldSkipLogging makes, in their order: the lookup of the path
\* in the skip set, the call of cfg.skip when the lookup failed and a
\* predicate is configured, and the patterns when neither suppressed
skipTests(path, skp, cf, c) ==
    LET lookup == << [test |-> "path", at |-> 0, said |-> path \in skp] >>
        called == IF ~(path \in skp) /\ cf.skip # NoFn
                  THEN << [test |-> "skipper", at |-> 0, said |-> Skipper(cf.skip, c)] >>
                  ELSE <<>>
    IN  lookup \o called
          \o (IF path \in skp \/ (cf.skip # NoFn /\ Skipper(cf.skip, c))
              THEN <<>>
              ELSE patternTests(cf.skipPathRegexps, path, 1))

\* a variant that never looks the path up in the skip set
shouldSkipLoggingNoSet(path, skp, cf, c) ==
    IF cf.skip # NoFn /\ Skipper(cf.skip, c)
    THEN TRUE
    ELSE matchAny(cf.skipPathRegexps, path)

\* a variant that never calls the skip predicate
shouldSkipLoggingNoSkipper(path, skp, cf, c) ==
    IF path \in skp
    THEN TRUE
    ELSE matchAny(cf.skipPathRegexps, path)

\* a variant in which a configured skip predicate decides alone
shouldSkipLoggingSkipperDecides(path, skp, cf, c) ==
    IF path \in skp
    THEN TRUE
    ELSE IF cf.skip # NoFn
         THEN Skipper(cf.skip, c)
         ELSE matchAny(cf.skipPathRegexps, path)

shouldSkipLogging(path, skp, cf, c) ==
    IF path \in skp \/ (cf.skip # NoFn /\ Skipper(cf.skip, c))
    THEN TRUE
    ELSE matchAny(cf.skipPathRegexps, path)

\* a variant whose client-error tier starts above 400
getLogEventAbove400(rl, cf, c, path) ==
    LET hasLevel == path \in DOMAIN cf.pathLevels
        hasSpecificLogLevel == c.status \in DOMAIN cf.specificLevelByStatusCode
    IN  IF hasSpecificLogLevel
        THEN WithLevel(rl, cf.specificLevelByStatusCode[c.status])
        ELSE IF c.status > StatusBadRequest /\ c.status < StatusInternalServerError
        THEN WithLevel(rl, cf.clientErrorLevel)
        ELSE IF c.status >= StatusInternalServerError
        THEN WithLevel(rl, cf.serverErrorLevel)
        ELSE IF hasLevel
        THEN WithLevel(rl, cf.pathLevels[path])
        ELSE WithLevel(rl, cf.defaultLevel)

\* a variant that looks at the status tiers before the per-status table
getLogEventTiersFirst(rl, cf, c, path) ==
    LET hasLevel == path \in DOMAIN cf.pathLevels
        hasSpecificLogLevel == c.status \in DOMAIN cf.specificLevelByStatusCode
    IN  IF c.status >= StatusBadRequest /\ c.status < StatusInternalServerError
        THEN WithLevel(rl, cf.clientErrorLevel)
        ELSE IF c.status >= StatusInternalServerError
        THEN WithLevel(rl, cf.serverErrorLevel)
        ELSE IF hasSpecificLogLevel
        THEN WithLevel(rl, cf.specificLevelByStatusCode[c.status])
        ELSE IF hasLevel
        THEN WithLevel(rl, cf.pathLevels[path])
        ELSE WithLevel(rl, cf.defaultLevel)

\* a variant that looks at the per-path table before the status tiers
getLogEventPathFirst(rl, cf, c, path) ==
    LET hasLevel == path \in DOMAIN cf.pathLevels
        hasSpecificLogLevel == c.status \in DOMAIN cf.specificLevelByStatusCode
    IN  IF hasSpecificLogLevel
        THEN WithLevel(rl, cf.specificLevelByStatusCode[c.status])
        ELSE IF hasLevel
        THEN WithLevel(rl, cf.pathLevels[path])
        ELSE IF c.status >= StatusBadRequest /\ c.status < StatusInternalServerError
        THEN WithLevel(rl, cf.clientErrorLevel)
        ELSE IF c.status >= StatusInternalServerError
        THEN WithLevel(rl, cf.serverErrorLevel)
        ELSE WithLevel(rl, cf.defaultLevel)

\* a variant that looks the level of the path up by the URL path alone
getLogEventByURLPath(rl, cf, c, path) ==
    LET hasLevel == c.urlPath \in DOMAIN cf.pathLevels
        hasSpecificLogLevel == c.status \in DOMAIN cf.specificLevelByStatusCode
    IN  IF hasSpecificLogLevel
        THEN WithLevel(rl, cf.specificLevelByStatusCode[c.status])
        ELSE IF c.status >= StatusBadRequest /\ c.status < StatusInternalServerError
        THEN WithLevel(rl, cf.clientErrorLevel)
        ELSE IF c.status >= StatusInternalServerError
        THEN WithLevel(rl, cf.serverErrorLevel)
        ELSE IF hasLevel
        THEN WithLevel(rl, cf.pathLevels[c.urlPath])
        ELSE WithLevel(rl, cf.defaultLevel)

getLogEvent(rl, cf, c, path) ==
    LET hasLevel == path \in DOMAIN cf.pathLevels
        hasSpecificLogLevel == c.status \in DOMAIN cf.specificLevelByStatusCode
    IN  IF hasSpecificLogLevel
        THEN WithLevel(rl, cf.specificLevelByStatusCode[c.status])
        ELSE IF c.status >= StatusBadRequest /\ c.status < StatusInternalServerError
        THEN WithLevel(rl, cf.clientErrorLevel)
        ELSE IF c.status >= StatusInternalServerError
        THEN WithLevel(rl, cf.serverErrorLevel)
        ELSE IF hasLevel
        THEN WithLevel(rl, cf.pathLevels[path])
        ELSE WithLevel(rl, cf.defaultLevel)

(***************************************************************************)
(* The gin context of one request, as far as the middleware reads it.      *)
(* A fresh response writer reports status 200 and size -1; keys holds      *)
(* what c.Set stored.                                                      *)
(***************************************************************************)
NoKeys ==
    [k \in {} |-> [w |-> "", level |-> TraceLevel, context |-> <<>>, timestamp |-> FALSE]]

\* no body-capturing writer is installed: c.Writer is gin's own writer
NoBodyLogWriter == [installed |-> FALSE, body |-> ""]

\* the result of a write: the number of bytes taken and whether it failed
NoResult == [n |-> 0, err |-> FALSE]

\* handled counts the runs of the downstream handlers for the request;
\* body is what gin's response writer has sent, blw the writer the revision
\* with body capture puts in front of it, calls the number of writes the
\* handler made, ret what the last of them returned and realRet what gin's
\* writer returned for it
NewContext(m, p, q) ==
    [method |-> m,
     urlPath |-> p,
     rawQuery |-> q,
     ip |-> "192.0.2.1",
     userAgent |-> "",
     status |-> 200,
     size |-> -1,
     errors |-> <<>>,
     keys |-> NoKeys,
     body |-> "",
     blw |-> NoBodyLogWriter,
     calls |-> 0,
     handled |-> 0,
     ret |-> NoResult,
     realRet |-> NoResult]

\* a variant that attaches the logger after the downstream handlers ran: the
\* context the handler sees has none
SetAfterNext(c, key, value) == c

\* c.Set(key, value)
Set(c, key, value) == [c EXCEPT !.keys = (key :> value) @@ @]

\* c.Errors.String(): "Error #01: <text>\n" for each error, in order
RECURSIVE ErrorsString(_, _)
ErrorsString(errs, i) ==
    IF i > Len(errs)
    THEN ""
    ELSE (IF i < 10 THEN "Error #0" ELSE "Error #") \o ToString(i) \o ": "
           \o errs[i] \o "\n" \o ErrorsString(errs, i + 1)

(***************************************************************************)
(* The handler closure, statement by statement.                            *)
(***************************************************************************)
\* a variant that assigns to the captured logger, as the revision before rl
\* was introduced did: if cfg.logger != nil { l = cfg.logger(c, l) }
requestLoggerShared(cf, c, base) ==
    LET x == IF cf.logger # NoFn THEN Fn(cf.logger, c, base) ELSE base
    IN  [rl |-> x, l |-> x]

\* a variant that also keeps the request's path in the captured logger, as
\* that revision did: l = l.With().Str("path", path)...Logger()
requestLoggerLeaky(cf, c, base) ==
    LET x == IF cf.logger # NoFn THEN Fn(cf.logger, c, base) ELSE base
        y == WithStr(x, "path",
                     IF c.rawQuery # "" THEN c.urlPath \o "?" \o c.rawQuery
                     ELSE c.urlPath)
    IN  [rl |-> x, l |-> y]

\* rl := l; if cfg.logger != nil { rl = cfg.logger(c, l) }
\* the result names the request logger and the value the captured l holds after
requestLogger(cf, c, base) ==
    [rl |-> IF cf.logger # NoFn THEN Fn(cf.logger, c, base) ELSE base,
     l |-> base]

\* the calls of cfg.logger the closure makes for one request
loggerCalls(cf) == IF cf.logger # NoFn THEN 1 ELSE 0

\* a variant that builds the whole event, custom fields included, before it
\* looks at track
contextCallsUntracked(track, cf) == IF cf.context # NoFn THEN 1 ELSE 0

\* the calls of cfg.context the closure makes for one request: one, inside
\* the `if track` block
contextCalls(track, cf) == IF track /\ cf.context # NoFn THEN 1 ELSE 0

\* what the closure computes after c.Next(): everything is inside `if track`
computedAfterNext(track) == IF track THEN {"end", "latency", "level"} ELSE {}

\* a variant that returns without running the handlers of a suppressed request
afterSetSkipping(track) == IF track THEN "next" ELSE "after"

\* c.Set(loggerKey, contextLogger); c.Next(): the downstream handlers run,
\* tracked or not
afterSet(track) == "next"

\* a variant that appends "?" and the raw query whether or not there is one
computedPathAlwaysQuery(c) == c.urlPath \o "?" \o c.rawQuery

\* path := c.Request.URL.Path; if raw != "" { path += "?" + raw }
computedPath(c) ==
    IF c.rawQuery # "" THEN c.urlPath \o "?" \o c.rawQuery ELSE c.urlPath

\* contextLogger := rl; if track { contextLogger = rl.With()...Logger() }
contextLogger(rl, track, c, path) ==
    IF track
    THEN WithStr(WithStr(WithStr(WithStr(rl,
             "method", c.method), "path", path), "ip", c.ip),
             "user_agent", c.userAgent)
    ELSE rl

\* a variant that appends the rendering of the errors twice
messageTwice(cf, c) ==
    IF Len(c.errors) > 0
    THEN cf.message \o " with errors: " \o ErrorsString(c.errors, 1)
                    \o " with errors: " \o ErrorsString(c.errors, 1)
    ELSE cf.message

\* msg := cfg.message; if len(c.Errors) > 0 { msg += " with errors: " + ... }
message(cf, c) ==
    IF Len(c.errors) > 0
    THEN cf.message \o " with errors: " \o ErrorsString(c.errors, 1)
    ELSE cf.message

\* end := time.Now(); if cfg.utc { end = end.UTC() }
endTime(cf) == IF cf.utc THEN UTC(Now) ELSE Now

\* a variant that lets the custom field function run after the standard fields
requestEventCustomLast(rl, cf, c, path, latency) ==
    LET evt == getLogEvent(rl, cf, c, path)
        std == Field(Field(Field(Field(Field(Field(Field(evt,
                   "status", c.status), "method", c.method), "path", path),
                   "ip", c.ip), "latency", latency), "user_agent", c.userAgent),
                   "body_size", c.size)
    IN  IF cf.context # NoFn THEN EventFn(cf.context, c, std) ELSE std

\* evt := getLogEvent(...); if cfg.context != nil {...}; evt.Int(...)...
requestEvent(rl, cf, c, path, latency) ==
    LET evt == getLogEvent(rl, cf, c, path)
        custom == IF cf.context # NoFn THEN EventFn(cf.context, c, evt) ELSE evt
    IN  Field(Field(Field(Field(Field(Field(Field(custom,
            "status", c.status), "method", c.method), "path", path),
            "ip", c.ip), "latency", latency), "user_agent", c.userAgent),
            "body_size", c.size)

\* the line the writer receives: the timestamp hook of a logger built with
\* Timestamp() reads the clock inside Msg, at the instant `at`, and the
\* console writer shows that time in the local zone
Line(evt, msg, at) ==
    [level |-> evt.level, fields |-> evt.fields, msg |-> msg,
     time |-> IF evt.timestamp THEN [instant |-> at, zone |-> "Local"] ELSE NoTime]

\* a variant that writes the event twice
MsgTwice(snk, evt, msg, at) ==
    IF evt.nil
    THEN snk
    ELSE [snk EXCEPT ![evt.w] = @ \o << Line(evt, msg, at), Line(evt, msg, at) >>]

\* Event.Msg at the instant `at` of the clock: one write of the finished event
\* to the event's writer; nothing for the nil event
Msg(snk, evt, msg, at) ==
    IF evt.nil
    THEN snk
    ELSE [snk EXCEPT ![evt.w] = Append(@, Line(evt, msg, at))]

\* what becomes of the caller of Event.Msg: the done callback of the event, if
\* it has one, runs after the write and exits the process or panics
afterMsg(evt) ==
    IF evt.nil \/ evt.done = "nil" THEN "done" ELSE evt.done

\* where the closure is after its `if track` block
afterLogRequest(track, rl, cf, c, path) ==
    IF track THEN afterMsg(requestEvent(rl, cf, c, path, 0)) ELSE "done"

\* if track { end := time.Now() ... evt.Msg(msg) }: the clock is read twice,
\* for end and, `elapsed` later, by the timestamp hook inside Msg
logRequest(snk, track, rl, cf, c, path, start, elapsed) ==
    IF track
    THEN LET end == endTime(cf)
             latency == Sub(end, start)
         IN  Msg(snk, requestEvent(rl, cf, c, path, latency), message(cf, c),
                 now + elapsed)
    ELSE snk

\* the sinks: os.Stderr, os.Stdout (gin.DefaultWriter) and a caller's buffer
Writers == {"stderr", "stdout", "buffer"}

\* the closure's locals of a request.  Next to rl, start, path and track
\* they record what the closure did for the request: tests is the sequence
\* of tests shouldSkipLogging made, fnCalls and eventFnCalls count the calls
\* of cfg.logger and cfg.context, computed names what was computed after
\* c.Next()
NoLocals ==
    [rl |-> [w |-> "", level |-> TraceLevel, context |-> <<>>, timestamp |-> FALSE],
     start |-> NoTime, end |-> NoTime, path |-> "", track |-> FALSE,
     tests |-> <<>>, fnCalls |-> 0, eventFnCalls |-> 0, computed |-> {}]

\* the state when SetLogger(os...) has returned and no request has arrived
Installed(os, g) ==
    /\ gLevel = g
    /\ opts = os
    /\ cfg = SetLogger(os).cfg
    /\ skip = SetLogger(os).skip
    /\ l = SetLogger(os).l
    /\ pc = [r \in Reqs |-> "new"]
    /\ ctx = [r \in Reqs |-> NewContext("", "", "")]
    /\ loc = [r \in Reqs |-> NoLocals]
    /\ sink = [w \in Writers |-> <<>>]
    /\ now = 0
    /\ parsed = <<>>

(***************************************************************************)
(* One request.  Enter is the closure up to c.Next(), Handle is the        *)
(* downstream handlers run by c.Next(), Finish is the closure after it.    *)
(***************************************************************************)
Enter(r, m, p, q) ==
    /\ pc[r] = "new"
    /\ LET c0 == NewContext(m, p, q)
           d == requestLogger(cfg, c0, l)
           path == computedPath(c0)
           track == ~shouldSkipLogging(path, skip, cfg, c0)
       IN  /\ l' = d.l
           /\ loc' = [loc EXCEPT ![r] =
                       [rl |-> d.rl, start |-> Now, end |-> NoTime, path |-> path,
                        track |-> track,
                        tests |-> skipTests(path, skip, cfg, c0),
                        fnCalls |-> loggerCalls(cfg),
                        eventFnCalls |-> 0, computed |-> {}]]
           /\ ctx' = [ctx EXCEPT ![r] =
                       Set(c0, loggerKey, contextLogger(d.rl, track, c0, path))]
    /\ pc' = [pc EXCEPT ![r] = afterSet(loc'[r].track)]
    /\ UNCHANGED <<opts, cfg, skip, sink, gLevel, now, parsed>>

\* the downstream handlers: they set the status, write the body, record errors
Handle(r, o) ==
    /\ pc[r] = "next"
    /\ ctx' = [ctx EXCEPT ![r].status = o.status, ![r].size = o.size,
                          ![r].errors = o.errors, ![r].handled = @ + 1]
    /\ pc' = [pc EXCEPT ![r] = "after"]
    /\ UNCHANGED <<opts, cfg, skip, l, loc, sink, gLevel, now, parsed>>

\* the closure after c.Next(); the clock advances by `elapsed` between the
\* reading of end and the reading the timestamp hook makes inside Msg
Finish(r, elapsed) ==
    /\ pc[r] = "after"
    /\ now + elapsed <= MaxTime
    /\ elapsed = 0 \/ loc[r].track
    /\ sink' = logRequest(sink, loc[r].track, loc[r].rl, cfg, ctx[r], loc[r].path,
                           loc[r].start, elapsed)
    /\ pc' = [pc EXCEPT ![r] =
                afterLogRequest(loc[r].track, loc[r].rl, cfg, ctx[r], loc[r].path)]
    /\ loc' = [loc EXCEPT ![r].end = IF loc[r].track THEN endTime(cfg) ELSE NoTime,
                          ![r].eventFnCalls = contextCalls(loc[r].track, cfg),
                          ![r].computed = computedAfterNext(loc[r].track)]
    /\ now' = now + elapsed
    /\ UNCHANGED <<opts, cfg, skip, l, ctx, gLevel, parsed>>

\* what the clock can advance by within one closure
Elapsed == 0..MaxTime

\* the clock advances
Tick ==
    /\ now < MaxTime
    /\ now' = now + 1
    /\ UNCHANGED <<opts, cfg, skip, l, pc, ctx, loc, sink, gLevel, parsed>>

(***************************************************************************)
(* Get: the logger the middleware attached to the context.                 *)
(***************************************************************************)
\* what zerolog.Nop() returns: a logger that writes nothing
NopLogger == [w |-> "", level |-> Disabled, context |-> <<>>, timestamp |-> FALSE]

\* a variant that returns a no-op logger when no logger is attached
GetOrNop(c) ==
    IF loggerKey \in DOMAIN c.keys
    THEN [panic |-> FALSE, logger |-> c.keys[loggerKey]]
    ELSE [panic |-> FALSE, logger |-> NopLogger]

\* c.MustGet(loggerKey).(zerolog.Logger): MustGet panics when the key is not set
Get(c) ==
    IF loggerKey \in DOMAIN c.keys
    THEN [panic |-> FALSE, logger |-> c.keys[loggerKey]]
    ELSE [panic |-> TRUE, logger |-> NopLogger]

\* a handler that logs through the attached logger, as
\* l := Get(ctx); l.Info().Msg("additional log"), and then answers
HandleGet(r, o, lvl) ==
    /\ pc[r] = "next"
    /\ LET got == Get(ctx[r])
       IN  IF got.panic
           THEN /\ pc' = [pc EXCEPT ![r] = "panic"]
                /\ UNCHANGED <<ctx, sink>>
           ELSE /\ sink' = Msg(sink, WithLevel(got.logger, lvl), "additional log", now)
                /\ ctx' = [ctx EXCEPT ![r].status = o.status, ![r].size = o.size,
                                      ![r].errors = o.errors, ![r].handled = @ + 1]
                /\ pc' = [pc EXCEPT ![r] = "after"]
    /\ UNCHANGED <<opts, cfg, skip, l, loc, gLevel, now, parsed>>

\* the same handler on a route the middleware is not installed on
BareGet(r, m, p, q, lvl) ==
    /\ pc[r] = "new"
    /\ LET c0 == NewContext(m, p, q)
           got == Get(c0)
       IN  /\ ctx' = [ctx EXCEPT ![r] = c0]
           /\ IF got.panic
              THEN /\ pc' = [pc EXCEPT ![r] = "panic"]
                   /\ UNCHANGED sink
              ELSE /\ sink' = Msg(sink, WithLevel(got.logger, lvl), "additional log", now)
                   /\ pc' = [pc EXCEPT ![r] = "done"]
    /\ UNCHANGED <<opts, cfg, skip, l, loc, gLevel, now, parsed>>

(***************************************************************************)
(* The revision with response-body capture: its options, its writer and    *)
(* its closure.                                                            *)
(***************************************************************************)
WithLogErrorResponseBody(logErrorResponseBody) ==
    [NoOption EXCEPT !.opt = "WithLogErrorResponseBody", !.flag = logErrorResponseBody]

WithLogResponseBody(logResponseBody) ==
    [NoOption EXCEPT !.opt = "WithLogResponseBody", !.flag = logResponseBody]

WithMaxResponseBodyLen(maxResponseBodyLen) ==
    [NoOption EXCEPT !.opt = "WithMaxResponseBodyLen", !.num = maxResponseBodyLen]

WithLogRequestBody(logRequestBody) ==
    [NoOption EXCEPT !.opt = "WithLogRequestBody", !.flag = logRequestBody]

WithMaxRequestBodyLen(maxRequestBodyLen) ==
    [NoOption EXCEPT !.opt = "WithMaxRequestBodyLen", !.num = maxRequestBodyLen]

\* WithSkipPathRegexp: that revision holds one pattern
WithSkipPathRegexp(s) == [NoOption EXCEPT !.opt = "WithSkipPathRegexp", !.regs = <<s>>]

\* the nil *regexp.Regexp
NoRegexp == [kind |-> "nil", lit |-> ""]

\* the config literal of that revision's SetLogger
DefaultConfigBody ==
    [logger |-> NoFn,
     utc |-> FALSE,
     skipPath |-> <<>>,
     skipPathRegexp |-> NoRegexp,
     output |-> "stdout",
     defaultLevel |-> InfoLevel,
     clientErrorLevel |-> WarnLevel,
     serverErrorLevel |-> ErrorLevel,
     logErrorResponseBody |-> FALSE,
     logResponseBody |-> FALSE,
     maxResponseBodyLen |-> 50]

\* a variant whose limits take any number given, positive or not
applyBodyAnyLimit(o, cf) ==
    CASE o.opt = "WithLogger" -> [cf EXCEPT !.logger = o.fn]
      [] o.opt = "WithUTC" -> [cf EXCEPT !.utc = o.flag]
      [] o.opt = "WithSkipPath" -> [cf EXCEPT !.skipPath = o.paths]
      [] o.opt = "WithWriter" -> [cf EXCEPT !.output = o.text]
      [] o.opt = "WithDefaultLevel" -> [cf EXCEPT !.defaultLevel = o.level]
      [] o.opt = "WithClientErrorLevel" -> [cf EXCEPT !.clientErrorLevel = o.level]
      [] o.opt = "WithServerErrorLevel" -> [cf EXCEPT !.serverErrorLevel = o.level]
      [] o.opt = "WithSkipPathRegexp" -> [cf EXCEPT !.skipPathRegexp = o.regs[1]]
      [] o.opt = "WithLogErrorResponseBody" -> [cf EXCEPT !.logErrorResponseBody = o.flag]
      [] o.opt = "WithLogResponseBody" -> [cf EXCEPT !.logResponseBody = o.flag]
      [] o.opt = "WithMaxResponseBodyLen" ->
           [cf EXCEPT !.maxResponseBodyLen = o.num]
      [] o.opt = "WithLogRequestBody" -> [cf EXCEPT !.logRequestBody = o.flag]
      [] o.opt = "WithMaxRequestBodyLen" ->
           [cf EXCEPT !.maxRequestBodyLen = o.num]

\* optionFunc.apply, for the options of that revision
applyBody(o, cf) ==
    CASE o.opt = "WithLogger" -> [cf EXCEPT !.logger = o.fn]
      [] o.opt = "WithUTC" -> [cf EXCEPT !.utc = o.flag]
      [] o.opt = "WithSkipPath" -> [cf EXCEPT !.skipPath = o.paths]
      [] o.opt = "WithWriter" -> [cf EXCEPT !.output = o.text]
      [] o.opt = "WithDefaultLevel" -> [cf EXCEPT !.defaultLevel = o.level]
      [] o.opt = "WithClientErrorLevel" -> [cf EXCEPT !.clientErrorLevel = o.level]
      [] o.opt = "WithServerErrorLevel" -> [cf EXCEPT !.serverErrorLevel = o.level]
      [] o.opt = "WithSkipPathRegexp" -> [cf EXCEPT !.skipPathRegexp = o.regs[1]]
      [] o.opt = "WithLogErrorResponseBody" -> [cf EXCEPT !.logErrorResponseBody = o.flag]
      [] o.opt = "WithLogResponseBody" -> [cf EXCEPT !.logResponseBody = o.flag]
      [] o.opt = "WithMaxResponseBodyLen" ->
           IF o.num > 0 THEN [cf EXCEPT !.maxResponseBodyLen = o.num] ELSE cf
      [] o.opt = "WithLogRequestBody" -> [cf EXCEPT !.logRequestBody = o.flag]
      [] o.opt = "WithMaxRequestBodyLen" ->
           IF o.num > 0 THEN [cf EXCEPT !.maxRequestBodyLen = o.num] ELSE cf

RECURSIVE ApplyOptionsBody(_, _)
ApplyOptionsBody(os, cf) ==
    IF os = <<>> THEN cf ELSE ApplyOptionsBody(Tail(os), applyBody(Head(os), cf))

\* that revision's SetLogger, up to the closure; the logger is the one the
\* closure builds anew for every request
SetLoggerBody(os) ==
    LET cf == ApplyOptionsBody(os, DefaultConfigBody)
    IN  [cfg |-> cf,
         skip |-> {cf.skipPath[i] : i \in 1..Len(cf.skipPath)},
         l |-> [w |-> cf.output, level |-> TraceLevel, context |-> <<>>,
                timestamp |-> TRUE]]

\* gin's response writer, Write and WriteString alike: the bytes are sent and
\* counted, or the connection is gone and the write fails
ResponseWriterWrite(c, b, ok) ==
    IF ok
    THEN [c |-> [c EXCEPT !.body = @ \o b,
                          !.size = (IF @ < 0 THEN 0 ELSE @) + Len(b)],
          ret |-> [n |-> Len(b), err |-> FALSE]]
    ELSE [c |-> c, ret |-> [n |-> 0, err |-> TRUE]]

\* func (w bodyLogWriter) Write(b): w.body.Write(b); return w.ResponseWriter.Write(b)
bodyLogWriterWrite(c, b, ok) ==
    LET real == ResponseWriterWrite([c EXCEPT !.blw.body = @ \o b], b, ok)
    IN  [c |-> real.c, ret |-> real.ret, realRet |-> real.ret]

\* c.Writer.Write(b)
WriterWrite(c, b, ok) ==
    IF c.blw.installed
    THEN bodyLogWriterWrite(c, b, ok)
    ELSE LET real == ResponseWriterWrite(c, b, ok)
         IN  [c |-> real.c, ret |-> real.ret, realRet |-> real.ret]

\* c.Writer.WriteString(s): bodyLogWriter declares no WriteString, so the call
\* goes to the method of the gin.ResponseWriter it embeds
WriterWriteString(c, b, ok) ==
    LET real == ResponseWriterWrite(c, b, ok)
    IN  [c |-> real.c, ret |-> real.ret, realRet |-> real.ret]

\* strings.TrimPrefix, strings.TrimSuffix
TrimPrefix(s, p) ==
    IF Len(s) >= Len(p) /\ SubSeq(s, 1, Len(p)) = p
    THEN SubSeq(s, Len(p) + 1, Len(s))
    ELSE s

TrimSuffix(s, p) ==
    IF Len(s) >= Len(p) /\ SubSeq(s, Len(s) - Len(p) + 1, Len(s)) = p
    THEN SubSeq(s, 1, Len(s) - Len(p))
    ELSE s

\* withResponse := (cfg.logErrorResponseBody && statusCode >= 400) ||
\*                 (cfg.logResponseBody && statusCode < 400)
withResponse(cf, statusCode) ==
    \/ cf.logErrorResponseBody /\ statusCode >= 400
    \/ cf.logResponseBody /\ statusCode < 400

\* a variant that cuts one byte late
responseCutLate(cf, c) ==
    IF withResponse(cf, c.status) /\ c.blw.installed
    THEN LET trimmed == TrimSuffix(TrimPrefix(c.blw.body, "\""), "\"")
         IN  IF Len(trimmed) > cf.maxResponseBodyLen + 1
             THEN SubSeq(trimmed, 1, cf.maxResponseBodyLen + 1) \o "..."
             ELSE trimmed
    ELSE ""

\* response = blw.body.String(), less one leading and one trailing double
\* quote, cut to maxResponseBodyLen bytes plus "..." when longer
response(cf, c) ==
    IF withResponse(cf, c.status) /\ c.blw.installed
    THEN LET trimmed == TrimSuffix(TrimPrefix(c.blw.body, "\""), "\"")
         IN  IF Len(trimmed) > cf.maxResponseBodyLen
             THEN SubSeq(trimmed, 1, cf.maxResponseBodyLen) \o "..."
             ELSE trimmed
    ELSE ""

\* a variant that attaches the response whenever either toggle is on
responseLoggerAlways(lg, cf, c) ==
    IF cf.logErrorResponseBody \/ cf.logResponseBody
    THEN WithStr(lg, "response", response(cf, c))
    ELSE lg

\* if withResponse { ctx = ctx.Logger().With().Str("response", response) }
responseLogger(lg, cf, c) ==
    IF withResponse(cf, c.status) THEN WithStr(lg, "response", response(cf, c)) ELSE lg

\* track of that closure, decided after c.Next()
trackBody(cf, skp, path) ==
    ~(\/ path \in skp
      \/ cf.skipPathRegexp # NoRegexp /\ MatchString(cf.skipPathRegexp, path))

\* the closure after c.Next(): track, the fields, the message and the level;
\* the clock is read for end and, `elapsed` later, by the timestamp hook
\* inside Msg
logRequestBody(snk, rl, cf, skp, c, path, start, elapsed) ==
    IF ~trackBody(cf, skp, path)
    THEN snk
    ELSE LET end == endTime(cf)
             latency == Sub(end, start)
             l1 == WithStr(WithStr(WithStr(rl, "status", c.status),
                       "method", c.method), "path", c.urlPath)
             l2 == responseLogger(l1, cf, c)
             l3 == WithStr(WithStr(WithStr(l2, "ip", c.ip),
                       "latency", latency), "user_agent", c.userAgent)
             msg == IF Len(c.errors) > 0 THEN ErrorsString(c.errors, 1) ELSE "Request"
             level == IF c.status >= StatusBadRequest /\ c.status < StatusInternalServerError
                      THEN cf.clientErrorLevel
                      ELSE IF c.status >= StatusInternalServerError
                      THEN cf.serverErrorLevel
                      ELSE cf.defaultLevel
         IN  Msg(snk, WithLevel(l3, level), msg, now + elapsed)

\* a variant that puts the capturing writer in front of every request
installWriterAlways(cf, c) == [c EXCEPT !.blw = [installed |-> TRUE, body |-> ""]]

\* if cfg.logErrorResponseBody || cfg.logResponseBody { blw = &bodyLogWriter{...};
\* c.Writer = blw }
installWriter(cf, c) ==
    IF cf.logErrorResponseBody \/ cf.logResponseBody
    THEN [c EXCEPT !.blw = [installed |-> TRUE, body |-> ""]]
    ELSE c

\* the config with the two fields the request-body options assign
ConfigRequestBody(cf, enabled, limit) ==
    [logRequestBody |-> enabled, maxRequestBodyLen |-> limit] @@ cf

\* SetLogger's loop over the options, one turn: o.apply(cfg)
ApplyOption(o) ==
    /\ Len(opts) < MaxOpts
    /\ opts' = Append(opts, o)
    /\ cfg' = applyBody(o, cfg)
    /\ UNCHANGED <<skip, l, pc, ctx, loc, sink, gLevel, now, parsed>>

\* the state when that revision's SetLogger(os...) has returned
InstalledBody(os, g) ==
    /\ gLevel = g
    /\ opts = os
    /\ cfg = SetLoggerBody(os).cfg
    /\ skip = SetLoggerBody(os).skip
    /\ l = SetLoggerBody(os).l
    /\ pc = [r \in Reqs |-> "new"]
    /\ ctx = [r \in Reqs |-> NewContext("", "", "")]
    /\ loc = [r \in Reqs |-> NoLocals]
    /\ sink = [w \in Writers |-> <<>>]
    /\ now = 0
    /\ parsed = <<>>

\* the closure up to c.Next(): the logger, start, path, and the capturing
\* writer when one of the two toggles is on
EnterBody(r, m, p, q) ==
    /\ pc[r] = "new"
    /\ LET c0 == NewContext(m, p, q)
           rl == IF cfg.logger # NoFn THEN Fn(cfg.logger, c0, l) ELSE l
       IN  /\ loc' = [loc EXCEPT ![r] =
                       [rl |-> rl, start |-> Now, end |-> NoTime, path |-> computedPath(c0),
                        track |-> TRUE,
                        tests |-> <<>>, fnCalls |-> loggerCalls(cfg),
                        eventFnCalls |-> 0, computed |-> {}]]
           /\ ctx' = [ctx EXCEPT ![r] = installWriter(cfg, c0)]
    /\ pc' = [pc EXCEPT ![r] = "next"]
    /\ UNCHANGED <<opts, cfg, skip, l, sink, gLevel, now, parsed>>

\* the handler writes to c.Writer, by Write or by WriteString
WriteBody(r, b, byString, ok) ==
    /\ pc[r] = "next"
    /\ ctx[r].calls < MaxWrites
    /\ LET done == IF byString
                   THEN WriterWriteString(ctx[r], b, ok)
                   ELSE WriterWrite(ctx[r], b, ok)
       IN  ctx' = [ctx EXCEPT ![r] =
                     [done.c EXCEPT !.calls = @ + 1, !.ret = done.ret,
                                    !.realRet = done.realRet]]
    /\ UNCHANGED <<opts, cfg, skip, l, pc, loc, sink, gLevel, now, parsed>>

\* the handler returns, the status being st
AnswerBody(r, st) ==
    /\ pc[r] = "next"
    /\ ctx' = [ctx EXCEPT ![r].status = st, ![r].handled = @ + 1]
    /\ pc' = [pc EXCEPT ![r] = "after"]
    /\ UNCHANGED <<opts, cfg, skip, l, loc, sink, gLevel, now, parsed>>

\* the closure after c.Next(); the clock advances by `elapsed` between the
\* reading of end and the reading the timestamp hook makes inside Msg
FinishBody(r, elapsed) ==
    /\ pc[r] = "after"
    /\ now + elapsed <= MaxTime
    /\ elapsed = 0 \/ trackBody(cfg, skip, loc[r].path)
    /\ sink' = logRequestBody(sink, loc[r].rl, cfg, skip, ctx[r], loc[r].path,
                              loc[r].start, elapsed)
    /\ pc' = [pc EXCEPT ![r] = "done"]
    /\ loc' = [loc EXCEPT ![r].end = IF trackBody(cfg, skip, loc[r].path)
                                     THEN endTime(cfg) ELSE NoTime]
    /\ now' = now + elapsed
    /\ UNCHANGED <<opts, cfg, skip, l, ctx, gLevel, parsed>>

(***************************************************************************)
(* ParseLevel, which is zerolog.ParseLevel: the name of a level, compared  *)
(* without regard to case, or an integer that fits a zerolog.Level (int8). *)
(* A result is the numeric value of the level and whether an error was     *)
(* returned.  The level strings of the workload have no upper-case         *)
(* letters, for which comparing without regard to case is equality.        *)
(***************************************************************************)
\* zerolog.NoLevel, by its name like the other levels, and its value
NoLevel == ""

LevelValue(lvl) == IF lvl = NoLevel THEN 6 ELSE LevelRank[lvl]

\* the names in the order ParseLevel compares them
LevelNames ==
    <<TraceLevel, DebugLevel, InfoLevel, WarnLevel, ErrorLevel, FatalLevel, PanicLevel,
      Disabled, NoLevel>>

DigitValue ==
    ("0" :> 0) @@ ("1" :> 1) @@ ("2" :> 2) @@ ("3" :> 3) @@ ("4" :> 4) @@ ("5" :> 5)
      @@ ("6" :> 6) @@ ("7" :> 7) @@ ("8" :> 8) @@ ("9" :> 9)

\* the value of the decimal digits s, after the value acc of those before them
RECURSIVE DigitsValue(_, _)
DigitsValue(s, acc) ==
    IF s = "" THEN acc
    ELSE DigitsValue(SubSeq(s, 2, Len(s)), 10 * acc + DigitValue[SubSeq(s, 1, 1)])

\* strconv.Atoi: an optional sign and at least one decimal digit, nothing else
Atoi(s) ==
    LET signed == Len(s) > 0 /\ SubSeq(s, 1, 1) \in {"+", "-"}
        digits == IF signed THEN SubSeq(s, 2, Len(s)) ELSE s
    IN  IF digits = "" \/ \E i \in 1..Len(digits) : SubSeq(digits, i, i) \notin DOMAIN DigitValue
        THEN [n |-> 0, err |-> TRUE]
        ELSE [n |-> IF signed /\ SubSeq(s, 1, 1) = "-"
                    THEN 0 - DigitsValue(digits, 0)
                    ELSE DigitsValue(digits, 0),
              err |-> FALSE]

\* a variant that takes an unknown string for the level info
ParseLevelDefaulting(levelStr) ==
    IF \E i \in 1..Len(LevelNames) : LevelNames[i] = levelStr
    THEN [level |-> LevelValue(levelStr), err |-> FALSE]
    ELSE LET i == Atoi(levelStr)
         IN  IF i.err \/ i.n > 127 \/ i.n < -128
             THEN [level |-> LevelValue(InfoLevel), err |-> FALSE]
             ELSE [level |-> i.n, err |-> FALSE]

\* func ParseLevel(levelStr string) (zerolog.Level, error)
ParseLevel(levelStr) ==
    IF \E i \in 1..Len(LevelNames) : LevelNames[i] = levelStr
    THEN [level |-> LevelValue(levelStr), err |-> FALSE]
    ELSE LET i == Atoi(levelStr)
         IN  IF i.err
             THEN [level |-> LevelValue(NoLevel), err |-> TRUE]
             ELSE IF i.n > 127 \/ i.n < -128
             THEN [level |-> LevelValue(NoLevel), err |-> TRUE]
             ELSE [level |-> i.n, err |-> FALSE]

\* the program parses one more level string
Parse(levelStr) ==
    /\ Len(parsed) < MaxParses
    /\ parsed' = Append(parsed, [levelStr |-> levelStr, got |-> ParseLevel(levelStr)])
    /\ UNCHANGED <<opts, cfg, skip, l, pc, ctx, loc, sink, gLevel, now>>

\* requests are numbered in their order of arrival
InOrder(r) == \A s \in Reqs : s < r => pc[s] # "new"

(***************************************************************************)
(* Workloads: which options SetLogger is given, which requests arrive and  *)
(* what the downstream handlers do with them.                              *)
(***************************************************************************)
\* every list of at most MaxOpts options taken from S
OptionLists(S) == UNION {[1..n -> S] : n \in 0..MaxOpts}

Outcome(st, sz, errs) == [status |-> st, size |-> sz, errors |-> errs]

FirstReq == CHOOSE r \in Reqs : \A s \in Reqs : r <= s

\* --- concurrent requests to one path, told apart by their query ---
ServeOptionLists ==
    {<<>>,
     <<WithWriter("buffer")>>,
     <<WithLogger(FnOutput("buffer")),
       WithDefaultLevel(DebugLevel),
       WithClientErrorLevel(ErrorLevel),
       WithServerErrorLevel(FatalLevel)>>,
     <<WithWriter("buffer"), WithLogger(FnFields)>>,
     <<WithSkipPath(<<"/example?a=1">>)>>,
     <<WithSkipper(SkipURLPath("/example"))>>,
     <<WithSkipPathRegexps(<<rxQuery>>),
       WithContext(EvFields)>>,
     <<WithLogger(FnLevel(WarnLevel))>>,
     <<WithDefaultLevel(Disabled)>>}

ServeQueries == {"a=0", "a=1", "a=2"}

ServeOutcomes == {Outcome(200, -1, <<>>), Outcome(502, 2, <<"custom error">>)}

\* the global level: the lowest level, and the levels the example program sets
GlobalLevels == {TraceLevel, DebugLevel, InfoLevel}

Init == \E os \in ServeOptionLists, g \in GlobalLevels : Installed(os, g)

Next ==
    \E r \in Reqs :
        \/ \E q \in ServeQueries : InOrder(r) /\ Enter(r, "GET", "/example", q)
        \/ \E o \in ServeOutcomes : Handle(r, o)
        \/ Finish(r, 0)

Spec == Init /\ [][Next]_vars

\* --- the same requests, under a custom logger function and nothing that ---
\* --- suppresses a request or drops its event                            ---
CustomLoggerOptionLists ==
    {os \in ServeOptionLists :
        /\ SetLogger(os).cfg.logger \in {FnOutput("buffer"), FnFields}
        /\ SetLogger(os).cfg.context = NoFn}

InitCustomLogger == \E os \in CustomLoggerOptionLists : Installed(os, TraceLevel)

SpecCustomLogger == InitCustomLogger /\ [][Next]_vars

\* --- one request under every combination of the suppression options ---
SkipOptions ==
    {WithSkipPath(<<"/example2", "/example?a=1">>),
     WithSkipPathRegexps(<<rxURL>>),
     WithSkipPathRegexps(<<rxExact, rxQuery>>),
     WithSkipPathRegexps(<<>>),
     WithSkipper(SkipURLPath("/example2")),
     WithLogger(FnLevel(WarnLevel)),
     WithDefaultLevel(Disabled)}

SkipURLPaths == {"/example", "/example2", "/regexp01", "/other"}

SkipQueries == {"", "a=1", "b=2"}

SkipOutcomes == {Outcome(200, -1, <<>>), Outcome(502, 2, <<"custom error">>)}

InitSkip ==
    \E os \in OptionLists(SkipOptions), g \in GlobalLevels : Installed(os, g)

NextSkip ==
    \/ \E p \in SkipURLPaths, q \in SkipQueries : Enter(FirstReq, "GET", p, q)
    \/ \E o \in SkipOutcomes : Handle(FirstReq, o)
    \/ Finish(FirstReq, 0)

SpecSkip == InitSkip /\ [][NextSkip]_vars

\* --- one request under every combination of the level options ---
LevelOptions ==
    {WithDefaultLevel(DebugLevel),
     WithClientErrorLevel(ErrorLevel),
     WithServerErrorLevel(FatalLevel),
     WithPathLevel(("/example" :> TraceLevel)),
     WithSpecificLogLevelByStatusCode(
            (200 :> PanicLevel) @@ (404 :> FatalLevel) @@ (502 :> InfoLevel))}

LevelURLPaths == {"/example", "/example2"}

LevelStatuses == {100, 200, 201, 302, 399, 400, 404, 499, 500, 502, 599}

LevelOutcomes == {Outcome(st, -1, <<>>) : st \in LevelStatuses}

InitLevel ==
    \E os \in OptionLists(LevelOptions), g \in GlobalLevels : Installed(os, g)

NextLevel ==
    \/ \E p \in LevelURLPaths : Enter(FirstReq, "GET", p, "")
    \/ \E o \in LevelOutcomes : Handle(FirstReq, o)
    \/ Finish(FirstReq, 0)

SpecLevel == InitLevel /\ [][NextLevel]_vars

\* --- requests whose handlers record errors, under a configured message ---
MessageOptionLists ==
    {<<WithWriter("buffer")>>,
     <<WithWriter("buffer"), WithMessage("Custom message")>>,
     <<WithMessage("Done")>>}

MessageOutcomes ==
    {Outcome(200, -1, <<>>),
     Outcome(200, -1, <<"custom error">>),
     Outcome(500, 2, <<"custom error", "second error">>)}

\* the query that tells request r from the others
ReqQuery(r) == "a=" \o ToString(r)

InitMessage == \E os \in MessageOptionLists : Installed(os, TraceLevel)

NextMessage ==
    \E r \in Reqs :
        \/ InOrder(r) /\ Enter(r, "GET", "/example", ReqQuery(r))
        \/ \E o \in MessageOutcomes : Handle(r, o)
        \/ Finish(r, 0)

SpecMessage == InitMessage /\ [][NextMessage]_vars

\* --- one request, the clock running, under the options that bear on the ---
\* --- fields and the time of the event                                   ---
FieldsOptions ==
    {WithUTC(TRUE),
     WithUTC(FALSE),
     WithContext(EvFields),
     WithLogger(FnFields),
     WithWriter("buffer")}

FieldsMethods == {"GET", "POST"}

FieldsQueries == {"", "a=100"}

FieldsOutcomes ==
    {Outcome(200, -1, <<>>), Outcome(400, 2, <<>>), Outcome(502, 2, <<"custom error">>)}

InitFields == \E os \in OptionLists(FieldsOptions) : Installed(os, TraceLevel)

NextFields ==
    \/ \E m \in FieldsMethods, q \in FieldsQueries : Enter(FirstReq, m, "/example", q)
    \/ \E o \in FieldsOutcomes : Handle(FirstReq, o)
    \/ \E d \in Elapsed : Finish(FirstReq, d)
    \/ Tick

SpecFields == InitFields /\ [][NextFields]_vars

\* --- handlers that log through Get, on routes with and without the ---
\* --- middleware                                                     ---
GetOptionLists ==
    {<<WithWriter("buffer")>>,
     <<WithLogger(FnOutput("buffer"))>>,
     <<WithLogger(FnFields)>>,
     <<WithSkipPath(<<"/example?a=1">>)>>,
     <<WithSkipper(SkipURLPath("/example"))>>,
     <<WithSkipPathRegexps(<<rxQuery>>), WithWriter("buffer")>>,
     <<WithLogger(FnLevel(WarnLevel))>>}

GetLevels == {InfoLevel, ErrorLevel}

GetOutcomes == {Outcome(200, -1, <<>>)}

InitGet == \E os \in GetOptionLists : Installed(os, TraceLevel)

NextGet ==
    \E r \in Reqs :
        \/ InOrder(r) /\ Enter(r, "GET", "/example", ReqQuery(r))
        \/ \E lvl \in GetLevels :
               InOrder(r) /\ BareGet(r, "GET", "/example", ReqQuery(r), lvl)
        \/ \E o \in GetOutcomes, lvl \in GetLevels : HandleGet(r, o, lvl)
        \/ Finish(r, 0)

SpecGet == InitGet /\ [][NextGet]_vars

\* --- one request under options that set the levels fatal and panic, as ---
\* --- tier level, for a path and for a status code                     ---
SeverityOptionLists ==
    {<<WithWriter("buffer"), WithDefaultLevel(DebugLevel),
       WithClientErrorLevel(ErrorLevel), WithServerErrorLevel(FatalLevel)>>,
     <<WithDefaultLevel(PanicLevel), WithClientErrorLevel(FatalLevel),
       WithServerErrorLevel(PanicLevel)>>,
     <<WithPathLevel(("/example" :> FatalLevel) @@ ("/example2" :> PanicLevel))>>,
     <<WithSpecificLogLevelByStatusCode((404 :> FatalLevel) @@ (200 :> PanicLevel))>>,
     <<WithLogger(FnLevel(WarnLevel)), WithServerErrorLevel(PanicLevel)>>,
     <<WithSkipPath(<<"/example2">>), WithDefaultLevel(FatalLevel)>>}

SeverityURLPaths == {"/example", "/example2"}

SeverityOutcomes ==
    {Outcome(st, 2, errs) : st \in {200, 400, 404, 502}, errs \in {<<>>, <<"custom error">>}}

InitSeverity == \E os \in SeverityOptionLists, g \in GlobalLevels : Installed(os, g)

NextSeverity ==
    \/ \E p \in SeverityURLPaths : Enter(FirstReq, "GET", p, "")
    \/ \E o \in SeverityOutcomes : Handle(FirstReq, o)
    \/ Finish(FirstReq, 0)

SpecSeverity == InitSeverity /\ [][NextSeverity]_vars

\* --- requests under a skip predicate that reads the response, which the ---
\* --- handler changes                                                   ---
OrderOptionLists ==
    {<<WithWriter("buffer")>>,
     <<WithWriter("buffer"), WithSkipper(SkipSuccess)>>,
     <<WithSkipper(SkipSuccess), WithContext(EvFields)>>,
     <<WithSkipper(SkipURLPath("/example"))>>,
     <<WithSkipPath(<<"/example?a=1">>), WithSkipper(SkipMethod("POST"))>>}

OrderOutcomes ==
    {Outcome(200, -1, <<>>), Outcome(404, 2, <<>>), Outcome(502, 2, <<"custom error">>)}

InitOrder == \E os \in OrderOptionLists : Installed(os, TraceLevel)

NextOrder ==
    \E r \in Reqs :
        \/ InOrder(r) /\ Enter(r, "GET", "/example", ReqQuery(r))
        \/ \E o \in OrderOutcomes : Handle(r, o)
        \/ Finish(r, 0)

SpecOrder == InitOrder /\ [][NextOrder]_vars

\* --- one request, with and without a query, under skip paths and path ---
\* --- levels given with and without the query                         ---
KeyOptions ==
    {WithSkipPath(<<"/example">>),
     WithSkipPath(<<"/example?a=1">>),
     WithPathLevel(("/example" :> DebugLevel)),
     WithPathLevel(("/example?a=1" :> ErrorLevel)),
     WithPathLevel(("/example" :> DebugLevel) @@ ("/example?a=1" :> ErrorLevel)),
     WithWriter("buffer")}

KeyQueries == {"", "a=1", "a=2"}

KeyOutcomes == {Outcome(200, -1, <<>>), Outcome(404, 2, <<>>)}

InitKey == \E os \in OptionLists(KeyOptions) : Installed(os, TraceLevel)

NextKey ==
    \/ \E q \in KeyQueries : Enter(FirstReq, "GET", "/example", q)
    \/ \E o \in KeyOutcomes : Handle(FirstReq, o)
    \/ Finish(FirstReq, 0)

SpecKey == InitKey /\ [][NextKey]_vars

\* --- SetLogger under lists of options of every kind, some given twice ---
ConfigOptions ==
    {WithSkipPathRegexps(<<rxURL>>),
     WithSkipPathRegexps(<<rxExact, rxQuery>>),
     WithSkipPathRegexps(<<>>),
     WithSkipPath(<<"/example2">>),
     WithSkipPath(<<"/other", "/regexp01">>),
     WithDefaultLevel(DebugLevel),
     WithDefaultLevel(WarnLevel),
     WithClientErrorLevel(ErrorLevel),
     WithServerErrorLevel(FatalLevel),
     WithUTC(TRUE),
     WithUTC(FALSE),
     WithWriter("buffer"),
     WithMessage("Done"),
     WithLogger(FnFields),
     WithSkipper(SkipURLPath("/example2")),
     WithContext(EvFields),
     WithPathLevel(("/example" :> TraceLevel)),
     WithSpecificLogLevelByStatusCode((404 :> FatalLevel))}

ConfigOutcomes == {Outcome(200, -1, <<>>)}

InitConfig == \E os \in OptionLists(ConfigOptions) : Installed(os, TraceLevel)

NextConfig ==
    \/ Enter(FirstReq, "GET", "/example", "")
    \/ \E o \in ConfigOutcomes : Handle(FirstReq, o)
    \/ Finish(FirstReq, 0)

SpecConfig == InitConfig /\ [][NextConfig]_vars

\* --- the loop over the options of body capture, from the defaults on; ---
\* --- the limit of the request body starts at one of several values   ---
LimitNumbers == {-1, 0, 1, 10}

LimitOptions ==
    {WithMaxResponseBodyLen(n) : n \in LimitNumbers}
      \cup {WithMaxRequestBodyLen(n) : n \in LimitNumbers}
      \cup {WithLogRequestBody(TRUE), WithLogResponseBody(TRUE),
            WithLogErrorResponseBody(TRUE), WithLogResponseBody(FALSE)}

RequestLimits == {20, 50}

InitLimits ==
    \E n \in RequestLimits :
        /\ gLevel = DebugLevel
        /\ opts = <<>>
        /\ cfg = ConfigRequestBody(DefaultConfigBody, FALSE, n)
        /\ skip = {}
        /\ l = SetLoggerBody(<<>>).l
        /\ pc = [r \in Reqs |-> "new"]
        /\ ctx = [r \in Reqs |-> NewContext("", "", "")]
        /\ loc = [r \in Reqs |-> NoLocals]
        /\ sink = [w \in Writers |-> <<>>]
        /\ now = 0
        /\ parsed = <<>>

NextLimits == \E o \in LimitOptions : ApplyOption(o)

SpecLimits == InitLimits /\ [][NextLimits]_vars

\* --- a program that parses level strings: the names, integers inside and ---
\* --- outside the range of a level, and strings that are neither         ---
LevelStrings ==
    {"trace", "debug", "info", "warn", "error", "fatal", "panic", "disabled", "",
     "-1", "-2", "-3", "0", "1", "5", "7", "+3", "007", "127", "-128",
     "128", "-129", "1000", "warning", "err", "inf", "info ", " info", "verbose",
     "nolevel", "1.5", "-", "+", "--1", "1a", "0x1", "1 ", "off"}

InitParse == Installed(<<>>, TraceLevel)

NextParse == \E levelStr \in LevelStrings : Parse(levelStr)

SpecParse == InitParse /\ [][NextParse]_vars

\* --- one request whose handler writes a body, under the options of ---
\* --- response-body capture                                         ---
BodyOptionLists ==
    {<<WithWriter("buffer")>>,
     <<WithWriter("buffer"), WithLogErrorResponseBody(TRUE)>>,
     <<WithWriter("buffer"), WithLogResponseBody(TRUE)>>,
     <<WithWriter("buffer"), WithLogErrorResponseBody(TRUE), WithLogResponseBody(TRUE),
       WithMaxResponseBodyLen(10)>>,
     <<WithLogResponseBody(TRUE), WithMaxResponseBodyLen(0)>>,
     <<WithWriter("buffer"), WithLogErrorResponseBody(TRUE),
       WithLogErrorResponseBody(FALSE)>>,
     <<WithLogResponseBody(TRUE), WithLogResponseBody(FALSE),
       WithLogErrorResponseBody(TRUE), WithMaxResponseBodyLen(3)>>,
     <<WithLogResponseBody(TRUE), WithSkipPath(<<"/example?a=100">>)>>,
     <<WithLogResponseBody(TRUE), WithSkipPathRegexp(rxURL),
       WithDefaultLevel(Disabled)>>}

\* what a handler writes: short and long texts, and JSON strings, which come
\* in double quotes
BodyChunks ==
    {"ok", "bad status", "XXXXXXXXXX", 
     "XXXXXXXXXXXXXXXXXXXX", "\"bad status\"", "\"XXXXXXXXXX"}

BodyStatuses == {200, 399, 400, 502}

InitBody == \E os \in BodyOptionLists : InstalledBody(os, DebugLevel)

NextBody ==
    \/ EnterBody(FirstReq, "GET", "/example", "a=100")
    \/ \E b \in BodyChunks, byString \in BOOLEAN, ok \in BOOLEAN :
           WriteBody(FirstReq, b, byString, ok)
    \/ \E st \in BodyStatuses : AnswerBody(FirstReq, st)
    \/ \E d \in Elapsed : FinishBody(FirstReq, d)

SpecBody == InitBody /\ [][NextBody]_vars

(***************************************************************************)
(* What the properties speak of.                                           *)
(***************************************************************************)
Arrived(r) == pc[r] # "new"

Completed(r) == pc[r] = "done"

\* the computed path of a request: the URL path, plus "?" and the raw query
\* when the query is not empty
PathOf(r) ==
    IF ctx[r].rawQuery = ""
    THEN ctx[r].urlPath
    ELSE ctx[r].urlPath \o "?" \o ctx[r].rawQuery

\* the places of the events written so far
Written == UNION {{<<w, i>> : i \in 1..Len(sink[w])} : w \in Writers}

EventAt(at) == sink[at[1]][at[2]]

\* the value of the field k of an event: of the last one, when k occurs twice
LastField(e, k) ==
    LET at == {i \in 1..Len(e.fields) : e.fields[i][1] = k}
    IN  e.fields[CHOOSE i \in at : \A j \in at : j <= i][2]

\* the events written for the computed path of request r
EventsFor(r) == {at \in Written : LastField(EventAt(at), "path") = PathOf(r)}

NothingWritten == \A w \in Writers : sink[w] = <<>>

\* the three sources of suppression, as configured
InSkipPaths(p) == \E i \in 1..Len(cfg.skipPath) : cfg.skipPath[i] = p

SkipperSays(r) == cfg.skip # NoFn /\ Skipper(cfg.skip, ctx[r])

PatternMatches(p) ==
    \E i \in 1..Len(cfg.skipPathRegexps) : MatchString(cfg.skipPathRegexps[i], p)

Suppressed(r) == InSkipPaths(PathOf(r)) \/ SkipperSays(r) \/ PatternMatches(PathOf(r))

(***************************************************************************)
(* Suppression.                                                            *)
(***************************************************************************)
\* C1: a request whose computed path (URL path, plus "?" and the raw query
\* when there is one) equals one of the configured skip paths gets no event,
\* whatever its status and whether or not errors were recorded.
C1_SkipPathNoEvent ==
    \A r \in Reqs : (Arrived(r) /\ InSkipPaths(PathOf(r))) => EventsFor(r) = {}

\* a request with a query, status 502 and a recorded error has completed, only
\* its exact path suppresses it, and nothing was written
C1_Witness ==
    \E r \in Reqs :
        /\ Completed(r)
        /\ InSkipPaths(PathOf(r))
        /\ ctx[r].rawQuery # ""
        /\ ctx[r].status = 502
        /\ Len(ctx[r].errors) > 0
        /\ ~SkipperSays(r)
        /\ ~PatternMatches(PathOf(r))
        /\ cfg.defaultLevel # Disabled
        /\ cfg.logger = NoFn
        /\ gLevel = TraceLevel
        /\ NothingWritten

\* the patterns handed to SetLogger, over all its WithSkipPathRegexps options
GivenPatternMatches(p) ==
    \E i \in 1..Len(opts) :
        /\ opts[i].opt = "WithSkipPathRegexps"
        /\ \E j \in 1..Len(opts[i].regs) : MatchString(opts[i].regs[j], p)

\* C2: a request whose computed path is matched by at least one pattern gets
\* no event, however many patterns there are, wherever the matching one is in
\* the list and whichever WithSkipPathRegexps option brought it.
C2_PatternNoEvent ==
    \A r \in Reqs :
        (Arrived(r) /\ GivenPatternMatches(PathOf(r))) => EventsFor(r) = {}

\* two WithSkipPathRegexps options gave three patterns, only the last one, from
\* the second option, matches the completed request, and nothing was written
C2_Witness ==
    \E r \in Reqs :
        /\ Completed(r)
        /\ Len(opts) = 2
        /\ opts[1].opt = "WithSkipPathRegexps"
        /\ opts[2].opt = "WithSkipPathRegexps"
        /\ Len(cfg.skipPathRegexps) = 3
        /\ ~MatchString(cfg.skipPathRegexps[1], PathOf(r))
        /\ ~MatchString(cfg.skipPathRegexps[2], PathOf(r))
        /\ MatchString(cfg.skipPathRegexps[3], PathOf(r))
        /\ gLevel = TraceLevel
        /\ NothingWritten

\* the level the configuration selects for a completed request: the override
\* for its status, else the tier of a status from 400 on, else the override
\* for its path, else the default level
SelectedLevel(r) ==
    LET st == ctx[r].status
    IN  IF st \in DOMAIN cfg.specificLevelByStatusCode
        THEN cfg.specificLevelByStatusCode[st]
        ELSE IF st >= 400 /\ st < 500 THEN cfg.clientErrorLevel
        ELSE IF st >= 500 THEN cfg.serverErrorLevel
        ELSE IF PathOf(r) \in DOMAIN cfg.pathLevels THEN cfg.pathLevels[PathOf(r)]
        ELSE cfg.defaultLevel

\* zerolog drops an event of level Disabled, and one below the minimum level of
\* the request's logger or below the global level
Drops(lvl, r) ==
    \/ lvl = Disabled
    \/ LevelRank[lvl] < LevelRank[loc[r].rl.level]
    \/ LevelRank[lvl] < LevelRank[gLevel]

Discarded(r) == Drops(SelectedLevel(r), r)

\* C3, as stated: a request for which the skip predicate returns true gets no
\* event; one for which it returns false, and which no skip path and no
\* pattern matches, gets an event.
C3_AsStated ==
    \A r \in Reqs :
        Completed(r) =>
            /\ SkipperSays(r) => EventsFor(r) = {}
            /\ ( /\ cfg.skip # NoFn
                 /\ ~SkipperSays(r)
                 /\ ~InSkipPaths(PathOf(r))
                 /\ ~PatternMatches(PathOf(r)) ) => EventsFor(r) # {}

\* C3, amended: a request for which the skip predicate returns true gets no
\* event; one for which it returns false, and which no skip path and no
\* pattern matches, gets an event unless zerolog drops events of the level
\* selected for it (Disabled, or below the minimum level in force).
C3_SkipperNoEvent ==
    \A r \in Reqs :
        Completed(r) =>
            /\ SkipperSays(r) => EventsFor(r) = {}
            /\ ( /\ cfg.skip # NoFn
                 /\ ~SkipperSays(r)
                 /\ ~InSkipPaths(PathOf(r))
                 /\ ~PatternMatches(PathOf(r)) ) =>
                   (EventsFor(r) # {} <=> ~Discarded(r))

\* only the skip predicate suppresses a completed request, whose computed path
\* differs from the URL path the predicate looks at, and nothing was written
C3_Witness ==
    \E r \in Reqs :
        /\ Completed(r)
        /\ SkipperSays(r)
        /\ ctx[r].rawQuery # ""
        /\ ~InSkipPaths(PathOf(r))
        /\ ~PatternMatches(PathOf(r))
        /\ ~Discarded(r)
        /\ NothingWritten

\* C4: shouldSkipLogging returns true exactly when the computed path is in the
\* skip-path set, or a skip predicate is configured and returns true, or some
\* pattern matches the computed path; with nothing configured it returns
\* false.  (track is the negation of what it returned.)
C4_SkipIsDisjunction ==
    \A r \in Reqs :
        Arrived(r) =>
            /\ loc[r].track = ~Suppressed(r)
            /\ (cfg.skipPath = <<>> /\ cfg.skip = NoFn /\ cfg.skipPathRegexps = <<>>)
                 => loc[r].track

\* SetLogger got no option at all and the request is tracked
C4_Witness ==
    \E r \in Reqs :
        /\ Arrived(r)
        /\ opts = <<>>
        /\ skip = {}
        /\ cfg.skip = NoFn
        /\ cfg.skipPathRegexps = <<>>
        /\ loc[r].track

(***************************************************************************)
(* Severity.                                                               *)
(***************************************************************************)
\* the events of request r all have the level lvl, and there is one unless
\* zerolog drops events of that level
LoggedAt(r, lvl) ==
    /\ \A at \in EventsFor(r) : EventAt(at).level = lvl
    /\ ~Drops(lvl, r) => EventsFor(r) # {}

HasStatusOverride(r) == ctx[r].status \in DOMAIN cfg.specificLevelByStatusCode

HasPathOverride(r) == PathOf(r) \in DOMAIN cfg.pathLevels

\* the three tiers: below 400, 400 to 499, 500 and above
TierLevel(st) ==
    IF st < 400 THEN cfg.defaultLevel
    ELSE IF st < 500 THEN cfg.clientErrorLevel
    ELSE cfg.serverErrorLevel

\* C5: with no override for the status and none for the path, the event has
\* the default level for a status below 400 (1xx and 3xx too), the client-error
\* level for 400 to 499 and the server-error level from 500 on.
C5_StatusTiers ==
    \A r \in Reqs :
        (Completed(r) /\ ~HasStatusOverride(r) /\ ~HasPathOverride(r))
            => LoggedAt(r, TierLevel(ctx[r].status))

\* a request that completed with 399, the last status of the default tier, was
\* logged at a default level set by an option and different from the other two
C5_Witness ==
    \E r \in Reqs :
        /\ Completed(r)
        /\ ~HasStatusOverride(r)
        /\ ~HasPathOverride(r)
        /\ ctx[r].status = 399
        /\ cfg.defaultLevel = DebugLevel
        /\ cfg.clientErrorLevel = ErrorLevel
        /\ \E at \in EventsFor(r) : EventAt(at).level = DebugLevel

\* C6: when the per-status table holds the response status, the event has the
\* level of the table, whatever the tier of the status and whatever the
\* per-path table says.
C6_StatusOverrideWins ==
    \A r \in Reqs :
        (Completed(r) /\ HasStatusOverride(r))
            => LoggedAt(r, cfg.specificLevelByStatusCode[ctx[r].status])

\* a request to a path with a per-path level completed with 200, for which the
\* per-status table has another level, and was logged at the table's level
C6_Witness ==
    \E r \in Reqs :
        /\ Completed(r)
        /\ HasPathOverride(r)
        /\ ctx[r].status = 200
        /\ HasStatusOverride(r)
        /\ cfg.specificLevelByStatusCode[200] # cfg.pathLevels[PathOf(r)]
        /\ \E at \in EventsFor(r) :
               EventAt(at).level = cfg.specificLevelByStatusCode[200]

\* C7: where the per-status table has no entry for the status, the per-path
\* level is used for a status below 400 only: an overridden path is logged at
\* the client-error level for 400 to 499 and at the server-error level from
\* 500 on, and a path without override at the default level below 400.  Where
\* the table has an entry, the per-path level is not what decides.
C7_PathOverrideBelow400 ==
    \A r \in Reqs :
        Completed(r) =>
            LET st == ctx[r].status
            IN  /\ (~HasStatusOverride(r) /\ HasPathOverride(r) /\ st < 400)
                     => LoggedAt(r, cfg.pathLevels[PathOf(r)])
                /\ (~HasStatusOverride(r) /\ HasPathOverride(r) /\ st >= 400 /\ st < 500)
                     => LoggedAt(r, cfg.clientErrorLevel)
                /\ (~HasStatusOverride(r) /\ HasPathOverride(r) /\ st >= 500)
                     => LoggedAt(r, cfg.serverErrorLevel)
                /\ (~HasStatusOverride(r) /\ ~HasPathOverride(r) /\ st < 400)
                     => LoggedAt(r, cfg.defaultLevel)
                /\ HasStatusOverride(r)
                     => LoggedAt(r, cfg.specificLevelByStatusCode[st])

\* a request to a path with a per-path level completed with 500 and was logged
\* at the server-error level, which is not the path's level
C7_Witness ==
    \E r \in Reqs :
        /\ Completed(r)
        /\ HasPathOverride(r)
        /\ ~HasStatusOverride(r)
        /\ ctx[r].status = 500
        /\ cfg.serverErrorLevel # cfg.pathLevels[PathOf(r)]
        /\ \E at \in EventsFor(r) : EventAt(at).level = cfg.serverErrorLevel

(***************************************************************************)
(* Writes, concurrent requests, the captured values.                       *)
(***************************************************************************)
WriteCount == Cardinality(Written)

\* C8, as stated: a request results in exactly one write when it is not
\* suppressed and in none when it is, so that the writes are always as many as
\* the completed requests that were not suppressed.
C8_AsStated ==
    WriteCount = Cardinality({r \in Reqs : Completed(r) /\ ~Suppressed(r)})

\* C8, amended: a request results in exactly one write when it is not
\* suppressed and zerolog does not drop events of the level selected for it,
\* and in none otherwise, so that the writes are always as many as the
\* completed requests of that kind.
C8_OneWritePerLoggedRequest ==
    /\ WriteCount =
         Cardinality({r \in Reqs : Completed(r) /\ ~Suppressed(r) /\ ~Discarded(r)})
    /\ \A r \in Reqs : ~Completed(r) => EventsFor(r) = {} \/
                          \E s \in Reqs \ {r} : Completed(s) /\ PathOf(s) = PathOf(r)

\* of two completed requests one was suppressed and one logged: one write
C8_Witness ==
    \E r, s \in Reqs :
        /\ Completed(r) /\ Completed(s)
        /\ Suppressed(r)
        /\ ~Suppressed(s) /\ ~Discarded(s)
        /\ WriteCount = 1

\* how often the written events carry p as a path
PathMentions(p) ==
    Cardinality({m \in UNION {{<<at, i>> : i \in 1..Len(EventAt(at).fields)} :
                              at \in Written} :
                    /\ EventAt(m[1]).fields[m[2]][1] = "path"
                    /\ EventAt(m[1]).fields[m[2]][2] = p})

DistinctQueries ==
    \A r, s \in Reqs :
        (Arrived(r) /\ Arrived(s) /\ r # s) => ctx[r].rawQuery # ctx[s].rawQuery

\* C9: of requests with pairwise distinct queries handled at once under a
\* custom logger function, each completed one has exactly one event carrying
\* its computed path, and that path occurs nowhere else in what was written;
\* nothing is written for a request that has not completed.
C9_OneEventPerConcurrentRequest ==
    DistinctQueries =>
        /\ \A r \in Reqs : Completed(r) => PathMentions(PathOf(r)) = 1
        /\ \A r \in Reqs : (Arrived(r) /\ ~Completed(r)) => PathMentions(PathOf(r)) = 0
        /\ WriteCount = Cardinality({r \in Reqs : Completed(r)})

\* every request has completed, no two with the same query, and there are as
\* many events as requests while another request was in flight before
C9_Witness ==
    /\ DistinctQueries
    /\ \A r \in Reqs : Completed(r)
    /\ cfg.logger = FnOutput("buffer")
    /\ Len(sink["buffer"]) = MaxReqs
    /\ LastField(sink["buffer"][1], "path") = PathOf(MaxReqs)

\* C10: handling requests writes neither the config, nor the skip set, nor the
\* captured base logger; each request's logger, and the one attached to its
\* context, derive from that base logger and from the request alone, and the
\* paths an event carries are those of one request.
C10_CapturedValuesReadOnly ==
    LET built == SetLogger(opts)
        own(r) == IF built.cfg.logger # NoFn
                  THEN Fn(built.cfg.logger, ctx[r], built.l)
                  ELSE built.l
    IN  /\ cfg = built.cfg
        /\ skip = built.skip
        /\ l = built.l
        /\ \A r \in Reqs :
               Arrived(r) =>
                   /\ loc[r].rl = own(r)
                   /\ ctx[r].keys[loggerKey] =
                        IF Suppressed(r)
                        THEN own(r)
                        ELSE [own(r) EXCEPT !.context =
                                 @ \o << <<"method", ctx[r].method>>,
                                         <<"path", PathOf(r)>>,
                                         <<"ip", ctx[r].ip>>,
                                         <<"user_agent", ctx[r].userAgent>> >>]
        /\ \A at \in Written :
               \E r \in Reqs :
                   /\ Completed(r)
                   /\ \A i \in 1..Len(EventAt(at).fields) :
                          EventAt(at).fields[i][1] = "path" =>
                              EventAt(at).fields[i][2]
                                  \in {PathOf(r), ctx[r].urlPath, "custom"}

\* two requests with different queries completed under a custom logger function
\* that adds fields, both were logged, and the base logger has no field
C10_Witness ==
    \E r, s \in Reqs :
        /\ Completed(r) /\ Completed(s)
        /\ ctx[r].rawQuery # ctx[s].rawQuery
        /\ cfg.logger = FnFields
        /\ Len(loc[r].rl.context) = 2
        /\ WriteCount = 2
        /\ l.context = <<>>

(***************************************************************************)
(* The message and the fields of the event.                                *)
(***************************************************************************)
\* how often sub occurs in s
Occurrences(s, sub) ==
    Cardinality({i \in 1..(Len(s) - Len(sub) + 1) : SubSeq(s, i, i + Len(sub) - 1) = sub})

ErrorsSuffix == " with errors: "

\* C11: the message of a request's event is the configured message when the
\* handler recorded no error, and the configured message, the suffix
\* " with errors: " once and the rendering of all recorded errors when it
\* recorded some; the suffix occurs once then and not at all otherwise,
\* whatever the requests before it recorded.
C11_MessageWithErrorsOnce ==
    \A r \in Reqs :
        Completed(r) =>
            /\ EventsFor(r) # {}
            /\ \A at \in EventsFor(r) :
                   IF ctx[r].errors = <<>>
                   THEN /\ EventAt(at).msg = cfg.message
                        /\ Occurrences(EventAt(at).msg, ErrorsSuffix) = 0
                   ELSE /\ EventAt(at).msg =
                             cfg.message \o ErrorsSuffix \o ErrorsString(ctx[r].errors, 1)
                        /\ Occurrences(EventAt(at).msg, ErrorsSuffix) = 1
                        /\ \A i \in 1..Len(ctx[r].errors) :
                               Occurrences(EventAt(at).msg, ctx[r].errors[i]) = 1

\* a request with two errors was logged and then one without errors, under a
\* configured message
C11_Witness ==
    \E r, s \in Reqs :
        /\ Completed(r) /\ Completed(s)
        /\ cfg.message = "Custom message"
        /\ Len(ctx[r].errors) = 2
        /\ ctx[s].errors = <<>>
        /\ \E at \in EventsFor(r), bt \in EventsFor(s) :
               /\ at[1] = bt[1] /\ at[2] < bt[2]
               /\ EventAt(bt).msg = "Custom message"

\* the places in an event where the field k occurs
FieldPlaces(e, k) == {i \in 1..Len(e.fields) : e.fields[i][1] = k}

StandardFields ==
    {"status", "method", "path", "ip", "latency", "user_agent", "body_size"}

\* C12: the event of a request carries status, method, path, ip, latency,
\* user_agent and body_size with the values read after the handler completed,
\* the latency being the time from the start of the request to its end (the
\* reading of the clock after the handler, which the time of the line does
\* not precede); the fields of a custom field function come before them, so
\* that a custom field named like a standard one neither replaces nor removes
\* the standard value.
C12_StandardFieldsLast ==
    \A r \in Reqs :
        Completed(r) =>
            /\ EventsFor(r) # {}
            /\ \A at \in EventsFor(r) :
                   LET e == EventAt(at)
                   IN  /\ LastField(e, "status") = ctx[r].status
                       /\ LastField(e, "method") = ctx[r].method
                       /\ LastField(e, "path") = PathOf(r)
                       /\ LastField(e, "ip") = ctx[r].ip
                       /\ LastField(e, "latency")
                              = loc[r].end.instant - loc[r].start.instant
                       /\ e.time # NoTime => e.time.instant >= loc[r].end.instant
                       /\ LastField(e, "latency") >= 0
                       /\ LastField(e, "user_agent") = ctx[r].userAgent
                       /\ LastField(e, "body_size") = ctx[r].size
                       /\ cfg.context # NoFn =>
                              /\ FieldPlaces(e, "trace_id") # {}
                              /\ \A i \in FieldPlaces(e, "trace_id") :
                                     \A k \in StandardFields :
                                         \E j \in FieldPlaces(e, k) : i < j

\* a request was logged under a custom field function that sets a field named
\* path, after a handler that ran for one tick and answered 502, the line
\* being stamped one tick after the reading of end
C12_Witness ==
    \E r \in Reqs :
        /\ Completed(r)
        /\ cfg.context = EvFields
        /\ ctx[r].status = 502
        /\ \E at \in EventsFor(r) :
               /\ LastField(EventAt(at), "latency") = 1
               /\ EventAt(at).time # NoTime
               /\ EventAt(at).time.instant = loc[r].end.instant + 1
               /\ \E i \in FieldPlaces(EventAt(at), "path") :
                      EventAt(at).fields[i][2] = "custom"

\* C17, as stated: the time of a request's event is shown in UTC when
\* WithUTC(true) is configured and in local time when it is not.
C17_AsStated ==
    \A r \in Reqs :
        Completed(r) =>
            \A at \in EventsFor(r) :
                EventAt(at).time.zone = IF cfg.utc THEN "UTC" ELSE "Local"

\* a request was logged with a time under WithUTC(true)
C17_Witness ==
    \E r \in Reqs :
        /\ Completed(r)
        /\ cfg.utc
        /\ \E at \in EventsFor(r) : EventAt(at).time # NoTime

\* C13: the path field of a request's event is the URL path alone when the raw
\* query is empty, and the URL path, "?" and the raw query when it is not.
C13_PathFieldIsComputedPath ==
    \A r \in Reqs :
        Completed(r) =>
            /\ Written # {}
            /\ \A at \in Written :
                   IF ctx[r].rawQuery = ""
                   THEN /\ LastField(EventAt(at), "path") = ctx[r].urlPath
                        /\ Occurrences(LastField(EventAt(at), "path"), "?") = 0
                   ELSE LastField(EventAt(at), "path")
                            = ctx[r].urlPath \o "?" \o ctx[r].rawQuery

\* a request with a query was logged with the query in its path field
C13_Witness ==
    \E r \in Reqs :
        /\ Completed(r)
        /\ ctx[r].rawQuery = "a=100"
        /\ \E at \in Written : LastField(EventAt(at), "path") = "/example?a=100"

(***************************************************************************)
(* The logger attached to the context.                                     *)
(***************************************************************************)
\* the request went through the middleware's closure
ThroughMiddleware(r) == loc[r] # NoLocals

\* the handler of the request ran Get on a context the middleware never saw
CalledGetBare(r) == Arrived(r) /\ ~ThroughMiddleware(r)

\* C14: Get on a context to which no logger was attached panics: a handler
\* that calls it on a route without the middleware ends in the panic, gets no
\* logger and writes nothing.
C14_GetWithoutLoggerPanics ==
    /\ \A r \in Reqs :
           CalledGetBare(r) =>
               /\ pc[r] = "panic"
               /\ loggerKey \notin DOMAIN ctx[r].keys
               /\ Get(ctx[r]).panic
    /\ (\A r \in Reqs : ~ThroughMiddleware(r)) => NothingWritten

\* a handler called Get on a route without the middleware
C14_Witness ==
    \E r \in Reqs : CalledGetBare(r) /\ pc[r] = "panic" /\ ctx[r].urlPath = "/example"

\* the logger carries the request's method, computed path, ip and user agent
Carries(lg, r) ==
    \E i \in 1..(Len(lg.context) - 3) :
        /\ lg.context[i] = <<"method", ctx[r].method>>
        /\ lg.context[i + 1] = <<"path", PathOf(r)>>
        /\ lg.context[i + 2] = <<"ip", ctx[r].ip>>
        /\ lg.context[i + 3] = <<"user_agent", ctx[r].userAgent>>

\* while or after the handler of a request that went through the middleware
\* runs, the context holds a logger: Get does not panic, the logger carries the
\* request's fields exactly when the request is not suppressed, and it writes
\* where the request's own logger writes
AttachedLogger ==
    \A r \in Reqs :
        ThroughMiddleware(r) =>
            /\ pc[r] \in {"next", "after", "done"}
            /\ loggerKey \in DOMAIN ctx[r].keys
            /\ ~Get(ctx[r]).panic
            /\ Carries(Get(ctx[r]).logger, r) <=> ~Suppressed(r)
            /\ Suppressed(r) => Get(ctx[r]).logger = loc[r].rl
            /\ Get(ctx[r]).logger.w = loc[r].rl.w

\* what the handler of request r logs through Get goes to the writer of the
\* request's own logger and has the fields of the attached logger
LogsThroughAttached ==
    \A r \in Reqs :
        (pc[r] = "next" /\ pc'[r] = "after") =>
            LET w == loc[r].rl.w
            IN  /\ \A v \in Writers \ {w} : sink'[v] = sink[v]
                /\ \/ sink'[w] = sink[w]
                   \/ /\ Len(sink'[w]) = Len(sink[w]) + 1
                      /\ SubSeq(sink'[w], 1, Len(sink[w])) = sink[w]
                      /\ sink'[w][Len(sink'[w])].msg = "additional log"
                      /\ sink'[w][Len(sink'[w])].fields = ctx[r].keys[loggerKey].context

\* C15: every request that goes through the middleware, suppressed or not, has
\* a logger attached to its context before its handler runs, so that Get in the
\* handler does not panic; the logger carries the request's method, computed
\* path, ip and user_agent if and only if the request is not suppressed, and
\* what is logged through it goes to the sink of the request's event.
C15_LoggerAttachedBeforeHandler == []AttachedLogger /\ [][LogsThroughAttached]_vars

\* the handler of a suppressed request logged through Get, and so did the
\* handler of a request that is not suppressed, whose event followed
C15_Witness ==
    \E r, s \in Reqs :
        /\ Completed(r) /\ Completed(s)
        /\ ThroughMiddleware(r) /\ ThroughMiddleware(s)
        /\ Suppressed(r) /\ ~Suppressed(s)
        /\ \E w \in Writers :
               /\ Len(sink[w]) = 3
               /\ \E i \in 1..3 : sink[w][i].msg = "additional log" /\ sink[w][i].fields = <<>>
               /\ \E i \in 1..2 :
                      /\ sink[w][i].msg = "additional log"
                      /\ sink[w][i].fields # <<>>
                      /\ \E j \in (i + 1)..3 : sink[w][j].msg = "Request"

(***************************************************************************)
(* The defaults.                                                           *)
(***************************************************************************)
\* C16: with no option given to SetLogger a request is logged at info level
\* when its status is below 400, at warn level when it is in 400..499 and at
\* error level when it is 500 or more, and with the message "Request" when no
\* error was recorded.
C16_DefaultLevelsAndMessage ==
    \A r \in Reqs :
        (Completed(r) /\ opts = <<>>) =>
            /\ EventsFor(r) # {}
            /\ \A at \in EventsFor(r) :
                   /\ EventAt(at).level =
                          IF ctx[r].status < 400 THEN "info"
                          ELSE IF ctx[r].status < 500 THEN "warn"
                          ELSE "error"
                   /\ ctx[r].errors = <<>> => EventAt(at).msg = "Request"

\* with no option given, a request answered 404 was logged at warn level
C16_Witness ==
    \E r \in Reqs :
        /\ Completed(r)
        /\ opts = <<>>
        /\ ctx[r].status = 404
        /\ \E at \in EventsFor(r) :
               EventAt(at).level = "warn" /\ EventAt(at).msg = "Request"

(***************************************************************************)
(* Response-body capture.                                                  *)
(***************************************************************************)
\* what the capturing writer of request r has kept
Captured(r) == ctx[r].blw.body

\* s when it has at most m bytes, else its first m bytes and "..."
Cut(s, m) == IF Len(s) <= m THEN s ELSE SubSeq(s, 1, m) \o "..."

\* s less one leading and one trailing double quote
Unquoted(s) ==
    LET a == IF Len(s) > 0 /\ SubSeq(s, 1, 1) = "\"" THEN SubSeq(s, 2, Len(s)) ELSE s
    IN  IF Len(a) > 0 /\ SubSeq(a, Len(a), Len(a)) = "\""
        THEN SubSeq(a, 1, Len(a) - 1)
        ELSE a

\* the events that carry a response field
WithResponseField == {at \in Written : FieldPlaces(EventAt(at), "response") # {}}

\* C18 as the specification states it: the response field is the captured
\* body when that has at most maxResponseBodyLen bytes, and else its first
\* maxResponseBodyLen bytes followed by "...".
C18_AsStated ==
    \A r \in Reqs, at \in WithResponseField :
        Completed(r) =>
            LastField(EventAt(at), "response") = Cut(Captured(r), cfg.maxResponseBodyLen)

\* C18: the response field is the captured body less one leading and one
\* trailing double quote, when that remainder has at most maxResponseBodyLen
\* bytes, and else the first maxResponseBodyLen bytes of the remainder
\* followed by "...".
C18_ResponseUnquotedThenCut ==
    \A r \in Reqs, at \in WithResponseField :
        Completed(r) =>
            LastField(EventAt(at), "response")
                = Cut(Unquoted(Captured(r)), cfg.maxResponseBodyLen)

\* the maximum is 10, twenty X were captured, and the field holds ten X and
\* the ellipsis
C18_Witness ==
    \E r \in Reqs, at \in WithResponseField :
        /\ Completed(r)
        /\ cfg.maxResponseBodyLen = 10
        /\ Captured(r) = "XXXXXXXXXXXXXXXXXXXX"
        /\ LastField(EventAt(at), "response") = "XXXXXXXXXX..."

\* one call of the handler on the writer of request r, the capturing writer
\* being installed: the slice is appended to the copy, it reaches the real
\* writer as it is unless the real writer fails, and the call returns what
\* the real writer returned
CapturedWrite(r) ==
    (ctx[r].blw.installed /\ ctx'[r].calls = ctx[r].calls + 1) =>
        \E b \in BodyChunks :
            /\ ctx'[r].blw.body = ctx[r].blw.body \o b
            /\ IF ctx'[r].realRet.err
               THEN ctx'[r].body = ctx[r].body
               ELSE ctx'[r].body = ctx[r].body \o b
            /\ ctx'[r].ret = ctx'[r].realRet

\* C19 as the specification states it: every write of the handler to the
\* response, the capturing writer being installed, appends the slice to the
\* copy and forwards it unmodified in the same call, returning the real
\* writer's result; no byte reaches the real writer without being captured.
C19_AsStated == [][\A r \in Reqs : CapturedWrite(r)]_vars

\* the capturing writer is installed, the client was sent "ok" in one call,
\* and the copy is empty
C19_Witness ==
    \E r \in Reqs :
        /\ ctx[r].blw.installed
        /\ ctx[r].calls = 1
        /\ ctx[r].body = "ok"
        /\ Captured(r) = ""

\* C20: the event of a request carries a response field if and only if
\* error-response-body logging is on and the status is at least 400, or
\* response-body logging is on and the status is below 400; a short captured
\* body without quotes is the value of the field.
C20_ResponseFieldIff ==
    \A r \in Reqs, at \in Written :
        Completed(r) =>
            /\ at \in WithResponseField <=>
                   \/ cfg.logErrorResponseBody /\ ctx[r].status >= 400
                   \/ cfg.logResponseBody /\ ctx[r].status < 400
            /\ (/\ at \in WithResponseField
                /\ Captured(r) = Unquoted(Captured(r))
                /\ Len(Captured(r)) <= cfg.maxResponseBodyLen)
                   => LastField(EventAt(at), "response") = Captured(r)

\* only error-response-body logging is on, the request completed with status
\* 400 and the body "bad status", and the field holds the body
C20_Witness ==
    \E r \in Reqs, at \in WithResponseField :
        /\ Completed(r)
        /\ cfg.logErrorResponseBody
        /\ ~cfg.logResponseBody
        /\ ctx[r].status = 400
        /\ ctx[r].body = "bad status"
        /\ LastField(EventAt(at), "response") = "bad status"

(***************************************************************************)
(* Severity and termination.                                               *)
(***************************************************************************)
\* C21: the closure returns normally for every request, whatever the level
\* of its event: a request whose event has the level fatal or panic, be it
\* the tier level, a level set for the path or one set for the status code,
\* has its event written at that level and completes; no request ends in a
\* panic or with the process gone.
C21_FatalAndPanicReturn ==
    \A r \in Reqs :
        /\ pc[r] \in {"new", "next", "after", "done"}
        /\ (pc[r] = "done" /\ ~Suppressed(r) /\ ~Drops(SelectedLevel(r), r))
               => \E at \in EventsFor(r) : EventAt(at).level = SelectedLevel(r)

\* a request has completed whose path has the level panic, and its event was
\* written at that level
C21_Witness ==
    \E r \in Reqs :
        /\ pc[r] = "done"
        /\ HasPathOverride(r)
        /\ SelectedLevel(r) = PanicLevel
        /\ \E at \in EventsFor(r) : EventAt(at).level = PanicLevel

(***************************************************************************)
(* Parsing level strings.                                                  *)
(***************************************************************************)
\* the level strings ParseLevel knows among those of the workload, with the
\* value of the level each stands for
Recognised ==
    ("trace" :> -1) @@ ("debug" :> 0) @@ ("info" :> 1) @@ ("warn" :> 2)
      @@ ("error" :> 3) @@ ("fatal" :> 4) @@ ("panic" :> 5) @@ ("disabled" :> 7)
      @@ ("" :> 6)
      @@ ("-1" :> -1) @@ ("-2" :> -2) @@ ("-3" :> -3) @@ ("0" :> 0) @@ ("1" :> 1)
      @@ ("5" :> 5) @@ ("7" :> 7) @@ ("+3" :> 3) @@ ("007" :> 7) @@ ("127" :> 127)
      @@ ("-128" :> -128)

\* C22: ParseLevel returns the level and no error for the name of a level,
\* for the empty string and for an integer string that fits a level, and
\* returns an error for every other string.
C22_ParseLevelOrError ==
    \A i \in 1..Len(parsed) :
        IF parsed[i].levelStr \in DOMAIN Recognised
        THEN /\ ~parsed[i].got.err
             /\ parsed[i].got.level = Recognised[parsed[i].levelStr]
        ELSE parsed[i].got.err

\* "-2" was parsed to the level -2 without error, and "warning" gave an error
C22_Witness ==
    /\ \E i \in 1..Len(parsed) :
           /\ parsed[i].levelStr = "-2"
           /\ parsed[i].got = [level |-> -2, err |-> FALSE]
    /\ \E i \in 1..Len(parsed) :
           /\ parsed[i].levelStr = "warning"
           /\ parsed[i].got.err

(***************************************************************************)
(* The order of the steps of one request.                                  *)
(***************************************************************************)
\* C23 as the specification states it: the suppression decision is taken
\* after the downstream handler has completed, so a completed request has an
\* event exactly when, as the request is after the handler, no skip path, no
\* pattern and not the skip predicate suppresses it; the status, the errors
\* and the body size of the event are those the handler left.
C23_AsStated ==
    \A r \in Reqs :
        Completed(r) =>
            /\ (EventsFor(r) = {}) <=> Suppressed(r)
            /\ \A at \in EventsFor(r) :
                   /\ LastField(EventAt(at), "status") = ctx[r].status
                   /\ LastField(EventAt(at), "body_size") = ctx[r].size
                   /\ (Len(ctx[r].errors) > 0)
                          <=> (Occurrences(EventAt(at).msg, " with errors: ") = 1)

\* the skip predicate suppresses the requests answered below 400, a request
\* has completed with status 502, and no event was written for it
C23_Witness ==
    \E r \in Reqs :
        /\ Completed(r)
        /\ cfg.skip = SkipSuccess
        /\ ctx[r].status = 502
        /\ ~Suppressed(r)
        /\ EventsFor(r) = {}

(***************************************************************************)
(* The evaluation of the suppression sources.                              *)
(***************************************************************************)
\* the places in the tests of request r where the test is of kind k
TestsOf(r, k) == {i \in 1..Len(loc[r].tests) : loc[r].tests[i].test = k}

\* C24: the suppression sources are evaluated with short circuit, in the
\* order exact path, skip predicate, patterns as registered: the predicate is
\* called at most once per request and not at all when the computed path is
\* in the skip set, no pattern is tested when the path or the predicate
\* suppressed the request, and none after a pattern that matched.
C24_ShortCircuitOrder ==
    \A r \in Reqs :
        ThroughMiddleware(r) =>
            LET tests == loc[r].tests
                patterns == TestsOf(r, "pattern")
            IN  /\ TestsOf(r, "path") = {1}
                /\ Cardinality(TestsOf(r, "skipper")) <= 1
                /\ TestsOf(r, "skipper") \subseteq {2}
                /\ InSkipPaths(PathOf(r)) => TestsOf(r, "skipper") = {}
                /\ (InSkipPaths(PathOf(r)) \/ SkipperSays(r)) => patterns = {}
                /\ \A i \in patterns :
                       /\ i < Len(tests) => ~tests[i].said
                       /\ tests[i].at = 1 + Cardinality({j \in patterns : j < i})
                /\ loc[r].track <=> \A i \in 1..Len(tests) : ~tests[i].said

\* the path is not in the skip set, the predicate was called once and said
\* no, the first pattern did not match, the second did and was the last test
C24_Witness ==
    \E r \in Reqs :
        /\ Completed(r)
        /\ Len(cfg.skipPath) > 0
        /\ Len(cfg.skipPathRegexps) >= 2
        /\ Len(loc[r].tests) = 4
        /\ loc[r].tests[2].test = "skipper"
        /\ ~loc[r].tests[2].said
        /\ ~loc[r].tests[3].said
        /\ loc[r].tests[4].said
        /\ loc[r].tests[4].at = 2

(***************************************************************************)
(* The capturing writer is installed on demand.                            *)
(***************************************************************************)
\* the value the last option named o in the list gave its toggle: off when
\* there is none
ToggleGiven(o) ==
    LET at == {i \in 1..Len(opts) : opts[i].opt = o}
    IN  at # {} /\ opts[CHOOSE i \in at : \A j \in at : j <= i].flag

\* C25: the capturing writer stands in front of the writer of a request
\* exactly when error-response-body logging or response-body logging is on;
\* with both off the request keeps gin's writer, what the handler writes goes
\* to it, and no copy is kept.
C25_WriterOnlyWhenCapturing ==
    \A r \in Reqs :
        /\ ctx[r].blw.installed <=>
               /\ Arrived(r)
               /\ \/ ToggleGiven("WithLogErrorResponseBody")
                  \/ ToggleGiven("WithLogResponseBody")
        /\ ~ctx[r].blw.installed => Captured(r) = ""

\* error-response-body logging was switched on and off again, the handler
\* wrote "bad status" in one call, and the request completed without a
\* capturing writer and without a copy
C25_Witness ==
    \E r \in Reqs :
        /\ Completed(r)
        /\ \E i \in 1..Len(opts) :
               opts[i].opt = "WithLogErrorResponseBody" /\ opts[i].flag
        /\ ~ToggleGiven("WithLogErrorResponseBody")
        /\ ~ctx[r].blw.installed
        /\ ctx[r].calls = 1
        /\ ctx[r].body = "bad status"
        /\ Captured(r) = ""

(***************************************************************************)
(* The key of the skip paths and of the path levels.                       *)
(***************************************************************************)
\* C26: the skip paths and the path levels are looked up by the computed
\* path, query included.  Where nothing else suppresses, a completed request
\* has no event exactly when its computed path is a skip path, and below status 400 its
\* event has the level configured for that path, or the default level when
\* none is: a skip path or path level given for the URL path alone does not
\* apply to the request with a query.
C26_KeyedOnPathWithQuery ==
    \A r \in Reqs :
        Completed(r) =>
            /\ (EventsFor(r) = {}) <=> InSkipPaths(PathOf(r))
            /\ \A at \in EventsFor(r) :
                   ctx[r].status < 400 =>
                       EventAt(at).level =
                           IF PathOf(r) \in DOMAIN cfg.pathLevels
                           THEN cfg.pathLevels[PathOf(r)]
                           ELSE cfg.defaultLevel

\* /example is a skip path and has a path level, the request /example?a=1
\* completed with status 200, and its event was written at the default level
C26_Witness ==
    \E r \in Reqs :
        /\ Completed(r)
        /\ ctx[r].rawQuery = "a=1"
        /\ ctx[r].status = 200
        /\ InSkipPaths(ctx[r].urlPath)
        /\ ctx[r].urlPath \in DOMAIN cfg.pathLevels
        /\ PathOf(r) \notin DOMAIN cfg.pathLevels
        /\ \E at \in EventsFor(r) : EventAt(at).level = cfg.defaultLevel

(***************************************************************************)
(* The middleware and the downstream handlers.                             *)
(***************************************************************************)
\* the downstream handlers of a request run once, when the closure has
\* called c.Next(), and the closure ends normally
HandlersRunOnce ==
    \A r \in Reqs :
        /\ pc[r] \in {"new", "next", "after", "done"}
        /\ ctx[r].handled = IF pc[r] \in {"after", "done"} THEN 1 ELSE 0

\* the part of the closure after c.Next() leaves alone the status, the
\* recorded errors and the size of the response
KeepsResponse ==
    \A r \in Reqs :
        (pc[r] = "after" /\ pc'[r] # "after") =>
            /\ ctx'[r].status = ctx[r].status
            /\ ctx'[r].errors = ctx[r].errors
            /\ ctx'[r].size = ctx[r].size
            /\ ctx'[r].handled = ctx[r].handled

\* C27: for every request, suppressed or not, the middleware passes control
\* to the downstream handlers exactly once and does not abort the request,
\* change the status of the response or touch the recorded errors.
C27_HandlerRunsOnceUntouched == []HandlersRunOnce /\ [][KeepsResponse]_vars

\* a suppressed request has completed: its handlers ran once, answered 502
\* and recorded an error, and nothing was written
C27_Witness ==
    \E r \in Reqs :
        /\ Completed(r)
        /\ Suppressed(r)
        /\ ~loc[r].track
        /\ ctx[r].handled = 1
        /\ ctx[r].status = 502
        /\ Len(ctx[r].errors) = 1
        /\ NothingWritten

(***************************************************************************)
(* The options, applied in the order given.                                *)
(***************************************************************************)
\* the place of the last option named o in the list given, 0 when none is
LastGiven(o) ==
    LET at == {i \in 1..Len(opts) : opts[i].opt = o}
    IN  IF at = {} THEN 0 ELSE CHOOSE i \in at : \A j \in at : j <= i

\* the patterns of the first n options, in the order given
RECURSIVE PatternsGiven(_)
PatternsGiven(n) ==
    IF n = 0 THEN <<>>
    ELSE PatternsGiven(n - 1)
           \o (IF opts[n].opt = "WithSkipPathRegexps" THEN opts[n].regs ELSE <<>>)

\* C28: the config SetLogger builds has, as its patterns, the patterns of
\* all the WithSkipPathRegexps options in the order given, and for every
\* other setting the value of the last option given for it, or the default
\* when none was; the skip set holds the paths of the last WithSkipPath.
C28_OptionsInOrder ==
    LET last(o) == opts[LastGiven(o)]
        given(o) == LastGiven(o) # 0
    IN  /\ cfg.skipPathRegexps = PatternsGiven(Len(opts))
        /\ cfg.skipPath = IF given("WithSkipPath") THEN last("WithSkipPath").paths ELSE <<>>
        /\ skip = {cfg.skipPath[i] : i \in 1..Len(cfg.skipPath)}
        /\ cfg.logger = IF given("WithLogger") THEN last("WithLogger").fn ELSE NoFn
        /\ cfg.context = IF given("WithContext") THEN last("WithContext").fn ELSE NoFn
        /\ cfg.skip = IF given("WithSkipper") THEN last("WithSkipper").fn ELSE NoFn
        /\ cfg.utc = IF given("WithUTC") THEN last("WithUTC").flag ELSE FALSE
        /\ cfg.output = IF given("WithWriter") THEN last("WithWriter").text ELSE "stderr"
        /\ cfg.message = IF given("WithMessage") THEN last("WithMessage").text ELSE "Request"
        /\ cfg.defaultLevel =
               IF given("WithDefaultLevel") THEN last("WithDefaultLevel").level ELSE "info"
        /\ cfg.clientErrorLevel =
               IF given("WithClientErrorLevel") THEN last("WithClientErrorLevel").level
               ELSE "warn"
        /\ cfg.serverErrorLevel =
               IF given("WithServerErrorLevel") THEN last("WithServerErrorLevel").level
               ELSE "error"
        /\ DOMAIN cfg.pathLevels =
               IF given("WithPathLevel") THEN DOMAIN last("WithPathLevel").byPath ELSE {}
        /\ \A k \in DOMAIN cfg.pathLevels : cfg.pathLevels[k] = last("WithPathLevel").byPath[k]
        /\ DOMAIN cfg.specificLevelByStatusCode =
               IF given("WithSpecificLogLevelByStatusCode")
               THEN DOMAIN last("WithSpecificLogLevelByStatusCode").byStatus ELSE {}
        /\ \A k \in DOMAIN cfg.specificLevelByStatusCode :
               cfg.specificLevelByStatusCode[k]
                   = last("WithSpecificLogLevelByStatusCode").byStatus[k]

\* two pattern options and one without patterns between them were given: the
\* config holds the three patterns in the order given, and a request was
\* served under it
C28_Witness ==
    /\ Len(opts) = 3
    /\ opts[1].opt = "WithSkipPathRegexps" /\ Len(opts[1].regs) = 2
    /\ opts[2].opt = "WithSkipPathRegexps" /\ Len(opts[2].regs) = 0
    /\ opts[3].opt = "WithSkipPathRegexps" /\ Len(opts[3].regs) = 1
    /\ cfg.skipPathRegexps = opts[1].regs \o opts[3].regs
    /\ cfg.defaultLevel = "info"
    /\ \E r \in Reqs : Completed(r)

(***************************************************************************)
(* The calls of the custom functions.                                      *)
(***************************************************************************)
\* C29: the custom logger function, when one is configured, has been called
\* exactly once for a request by the time its handler runs, suppressed or
\* not; the custom field function is called only after the handler has
\* completed, exactly once for a request that is not suppressed and never
\* for a suppressed one, for which no end time, latency or level is computed.
C29_CustomFunctionCalls ==
    \A r \in Reqs :
        /\ loc[r].fnCalls = IF Arrived(r) /\ cfg.logger # NoFn THEN 1 ELSE 0
        /\ loc[r].eventFnCalls =
               IF Completed(r) /\ ~Suppressed(r) /\ cfg.context # NoFn THEN 1 ELSE 0
        /\ loc[r].computed =
               IF Completed(r) /\ ~Suppressed(r) THEN {"end", "latency", "level"} ELSE {}

\* under a custom field function one request was suppressed and completed
\* without a call of it, and another completed with one call
C29_Witness ==
    /\ cfg.context # NoFn
    /\ \E r \in Reqs :
           /\ Completed(r)
           /\ Suppressed(r)
           /\ loc[r].eventFnCalls = 0
           /\ loc[r].computed = {}
    /\ \E r \in Reqs :
           /\ Completed(r)
           /\ ~Suppressed(r)
           /\ loc[r].eventFnCalls = 1

(***************************************************************************)
(* The limits of the captured bodies.                                      *)
(***************************************************************************)
\* the limit of the response body is the number of the last
\* WithMaxResponseBodyLen option given with a positive number, and the
\* default 50 when there is none
ResponseLimitGiven ==
    LET at == {i \in 1..Len(opts) :
                  opts[i].opt = "WithMaxResponseBodyLen" /\ opts[i].num > 0}
    IN  cfg.maxResponseBodyLen =
            IF at = {} THEN 50 ELSE opts[CHOOSE i \in at : \A j \in at : j <= i].num

\* one turn of the loop with a limit option: a positive number becomes the
\* option's own limit, another number leaves the limit as it was, and every
\* other field of the config stays as it was
LimitOptionStep ==
    LET o == opts'[Len(opts')]
    IN  Len(opts') = Len(opts) + 1 =>
            /\ o.opt = "WithMaxResponseBodyLen" =>
                   cfg' = [cfg EXCEPT !.maxResponseBodyLen = IF o.num > 0 THEN o.num ELSE @]
            /\ o.opt = "WithMaxRequestBodyLen" =>
                   cfg' = [cfg EXCEPT !.maxRequestBodyLen = IF o.num > 0 THEN o.num ELSE @]

\* C30: WithMaxResponseBodyLen(n) and WithMaxRequestBodyLen(n) change their
\* own limit, and only for n > 0; for n <= 0 the limit configured before is
\* kept, which for the response body is 50 when none was configured; neither
\* changes the other limit or a capture toggle.
C30_LimitsOwnAndPositive == []ResponseLimitGiven /\ [][LimitOptionStep]_vars

\* the response limit was set to 10, then each limit option was given with a
\* number that is not positive: the response limit is 10 still, and the
\* request limit and the toggles are as they were at the start
C30_Witness ==
    /\ Len(opts) = 3
    /\ opts[1] = WithMaxResponseBodyLen(10)
    /\ opts[2] = WithMaxResponseBodyLen(0)
    /\ opts[3] = WithMaxRequestBodyLen(-1)
    /\ cfg.maxResponseBodyLen = 10
    /\ cfg.maxRequestBodyLen = 50
    /\ ~cfg.logRequestBody /\ ~cfg.logResponseBody /\ ~cfg.logErrorResponseBody

====
